---------------------------- MODULE Spec2Model ----------------------------
(***************************************************************************)
(* Audiolens browser client, src/frontend/app.js.                          *)
(*                                                                         *)
(* The file registers two DOMContentLoaded listeners, and a page that      *)
(* loads it runs both, one after the other: the overlay closure (lines     *)
(* 1-345: one caption line, `segments`, `activeIdx`, `captionText`) and    *)
(* the split-view closure (lines 347-794: a caption list, `lines`,         *)
(* `activeLine`, class lists).  Each closure has its own variables (poll,  *)
(* currentJobId, audioPathName, captionsVisible, ...) and its own          *)
(* listeners; they share the document: the upload button, the status line, *)
(* the audio player, the history list, and localStorage.  Every event is   *)
(* handled by the overlay closure's listener first and by the split        *)
(* closure's next.                                                         *)
(*                                                                         *)
(* The document has every element that the two closures use while they     *)
(* are set up, so both run to their end.  It has #captionOverlay and       *)
(* #captionText, which only the overlay closure uses, or it lacks them:    *)
(* then the overlay closure's show() and its captions toggle throw a       *)
(* TypeError part way.                                                     *)
(*                                                                         *)
(* Time is counted in ticks of 0.05 s: 0.15 s = 3 ticks, 2 s = 40 ticks.   *)
(* The instant a frame asks about is the IEEE-754 sum currentTime + 0.15,  *)
(* which for many clock values is not the double of the tick three later;  *)
(* instants are counted in half ticks, an odd number standing for a sum    *)
(* that falls just beside the tick.                                        *)
(* Indexes are the source's: 0-based, -1 for "no segment".                 *)
(* Text is a sequence of characters, each a string.                        *)
(*                                                                         *)
(* The service behind /upload, /status and /history is not part of the     *)
(* client; its job table, transcript cache and job lifecycle follow spec   *)
(* sections 3 to 7.  Job ids count from 1, 0 stands for null/undefined,    *)
(* audio contents are numbered from 1, the polling interval is counted in  *)
(* milliseconds.                                                           *)
(*                                                                         *)
(* Spec, SpecScan, SpecSeek, SpecBuild: the caption engines; a book is     *)
(* opened by a click in the history list and the poll that follows it.     *)
(* SpecPoll, SpecClient: the page with uploads and polling against the     *)
(* service, the second with its history list; SpecHistory, SpecRace: the   *)
(* history list and polling; SpecHistoryFair, SpecRaceFair: with timers    *)
(* and the fetches kept going.  SpecService, SpecServiceFair: the service  *)
(* under submissions from any client.  SpecPlayer: audio loads, seeks and  *)
(* saved positions.                                                        *)
(* SpecResume: the same across reloads of the page; SpecClock:             *)
(* the same with the wall clock (milliseconds since the page was loaded).  *)
(* SpecPanels: the panel toggles.                                          *)
(*                                                                         *)
(* An audio_url is the number of its audio.  The player's duration is NaN  *)
(* until the metadata of the audio is loaded; 0 stands for NaN.            *)
(***************************************************************************)
EXTENDS Integers, Sequences, FiniteSets, Bags, TLC

(***************************************************************************)
(* Program constants                                                       *)
(***************************************************************************)
\* app.js:194, app.js:557   const t = audioPlayer.currentTime + 0.15   (ticks)
LeadBias == 3

\* app.js:194, app.js:557: half ticks in a tick, the unit of the sum t
Scale == 2

\* app.js:89, app.js:428    setInterval(..., 2000)   (milliseconds)
PollIntervalMs == 2000

\* app.js:356   activeLine = null
NullEl == -1

\* app.js:463-464   an element of a caption list that buildcaptions has
\* since replaced: equal to no element of `lines`, and not null
DetachedEl == -2

\* app.js:9, app.js:356   currentJobId = null; also the `undefined` job_id of
\* an upload reply without one, the null poll, the absent lastJobId
NoJob == 0

\* app.js:216: now - saveThrottle < 3000, in milliseconds
ThrottleMs == 3000

\* app.js:228, 603: parseFloat(savedTime) > 2, two seconds in ticks
RestoreMinTicks == 40

\* app.js:312-319, 764-769: the arrow keys move the position by 10 s
SkipTicks == 200

\* localStorage.getItem('pos_' + ...) === null: nothing saved
NoPos == -1

\* fewer than two positions have been written since the page was loaded
NoGap == -1

\* Date.now() is counted in milliseconds from the load of the page. The
\* value 0 that line 10 gives saveThrottle lies further back than any
\* throttle window.
Epoch == 0 - ThrottleMs

\* the wall clock is read in steps of a third of the throttle window
ClockStepMs == ThrottleMs \div 3

(***************************************************************************)
(* Bounds of the model                                                     *)
(***************************************************************************)
\* longest generated transcript, in segments
MaxSegs == 3

\* generated segment bounds lie in FirstTime .. FirstTime + MaxSpan
MaxSpan == 2

\* longest transcript, in raw segments, that the reader is opened with
MaxLoadSegs == 2

\* job records the server can hold
MaxJobs == 2

\* calls of startPoll by one closure in one page session
MaxPolls == 1

\* status requests of the poll timers awaiting their reply at one time
MaxInFlight == 2

\* distinct audio contents (ContentIdentity) the service is given
MaxAudio == 1

\* how many times the wall clock is advanced in a run of the page
MaxWaits == 4

\* how many synccaptions callbacks scheduled for one frame are told apart
MaxLoops == 3

\* generated segments start at this tick or later
FirstTime == 8

\* the player's slider is moved in steps of this many ticks
SliderStep == 20

\* length of the recordings, in ticks: 12 s and 1 s
LongTicks == 240

ShortTicks == 20

(***************************************************************************)
(* Text                                                                    *)
(***************************************************************************)
\* ECMAScript WhiteSpace and LineTerminator, the characters that
\* String.prototype.trim strips; those that cannot be written in a string
\* are named by their code point
WhiteSpace ==
    {" ", "\t", "\n", "\r", "\f", "U+000B", "U+00A0", "U+1680", "U+2000",
     "U+2001", "U+2002", "U+2003", "U+2004", "U+2005", "U+2006", "U+2007",
     "U+2008", "U+2009", "U+200A", "U+2028", "U+2029", "U+202F", "U+205F",
     "U+3000", "U+FEFF"}

IsSpace(c) == c \in WhiteSpace

RECURSIVE TrimLeft(_)
TrimLeft(s) ==
    IF s # <<>> /\ IsSpace(Head(s)) THEN TrimLeft(Tail(s)) ELSE s

RECURSIVE TrimRight(_)
TrimRight(s) ==
    IF s # <<>> /\ IsSpace(s[Len(s)])
    THEN TrimRight(SubSeq(s, 1, Len(s) - 1))
    ELSE s

\* String.prototype.trim
Trim(s) == TrimRight(TrimLeft(s))

\* seg.words.map(w => w.word.trim()).join(' ')
RECURSIVE JoinWords(_)
JoinWords(ws) ==
    IF ws = <<>> THEN <<>>
    ELSE IF Len(ws) = 1 THEN Trim(ws[1].word)
    ELSE Trim(ws[1].word) \o <<" ">> \o JoinWords(Tail(ws))

(***************************************************************************)
(* buildcaptions: the stored segment list of a transcript                  *)
(*   data = [present |-> BOOLEAN, segments |-> Seq(raw segment)]           *)
(*   raw segment = [text, start, end, words], word = [word, start, end]    *)
(*   a missing seg.text is <<>>, a missing seg.words is <<>>               *)
(***************************************************************************)
HasWords(seg) == Len(seg.words) > 0

SegText(seg) == Trim(IF HasWords(seg) THEN JoinWords(seg.words) ELSE seg.text)

\* a build that takes every start from the segment itself
SegStartOwn(seg) == seg.start

SegStart(seg) == IF HasWords(seg) THEN seg.words[1].start ELSE seg.start

SegEnd(seg) == IF HasWords(seg) THEN seg.words[Len(seg.words)].end ELSE seg.end

\* a build without the `if (!text) continue`
RECURSIVE BuildFromKeepsBlank(_)
BuildFromKeepsBlank(raw) ==
    IF raw = <<>> THEN <<>>
    ELSE <<[text |-> SegText(Head(raw)), start |-> SegStart(Head(raw)),
            end |-> SegEnd(Head(raw))]>> \o BuildFromKeepsBlank(Tail(raw))

RECURSIVE BuildFrom(_)
BuildFrom(raw) ==
    IF raw = <<>> THEN <<>>
    ELSE LET seg == Head(raw)
             rest == BuildFrom(Tail(raw))
         IN IF SegText(seg) = <<>>
            THEN rest
            ELSE <<[text |-> SegText(seg), start |-> SegStart(seg),
                    end |-> SegEnd(seg)]>> \o rest

BuildSegments(data) == IF ~data.present THEN <<>> ELSE BuildFrom(data.segments)

(***************************************************************************)
(* The frame scan of synccaptions                                          *)
(***************************************************************************)
\* the double of a time given in ticks (seg.start, seg.end), on the scale of
\* the frame instants
Instant(k) == Scale * k

RECURSIVE ScanFrom(_, _, _)
ScanFrom(segs, t, i) ==
    IF i >= Len(segs) THEN -1
    ELSE IF t >= Instant(segs[i + 1].start) /\ t <= Instant(segs[i + 1].end)
         THEN i
    ELSE IF Instant(segs[i + 1].start) > t THEN -1
    ELSE ScanFrom(segs, t, i + 1)

\* a scan that stops at the first segment already over (end < t)
RECURSIVE ScanStopsPast(_, _, _)
ScanStopsPast(segs, t, i) ==
    IF i >= Len(segs) THEN -1
    ELSE IF t >= Instant(segs[i + 1].start) /\ t <= Instant(segs[i + 1].end)
         THEN i
    ELSE IF Instant(segs[i + 1].end) < t THEN -1
    ELSE ScanStopsPast(segs, t, i + 1)

ScanIdxStopsPast(segs, t) == ScanStopsPast(segs, t, 0)

\* a scan without the break on a match: the last qualifying segment
\* before the early stop wins
RECURSIVE ScanNoBreak(_, _, _, _)
ScanNoBreak(segs, t, i, idx) ==
    IF i >= Len(segs) THEN idx
    ELSE IF t >= Instant(segs[i + 1].start) /\ t <= Instant(segs[i + 1].end)
         THEN ScanNoBreak(segs, t, i + 1, i)
    ELSE IF Instant(segs[i + 1].start) > t THEN idx
    ELSE ScanNoBreak(segs, t, i + 1, idx)

ScanIdxLastMatch(segs, t) == ScanNoBreak(segs, t, 0, -1)

\* app.js:195-199, 561-565
ScanIdx(segs, t) == ScanFrom(segs, t, 0)

\* The clock values k (ticks, 0 to 1000) for which the double k/20 + 0.15
\* is smaller than the double (k + 3)/20, and those for which it is greater;
\* for every other k the two are equal.
DriftDown ==
    {6, 19, 23, 24, 28, 29, 33, 34, 41, 46, 51, 56, 61, 66, 71, 76, 319,
     323, 324, 328, 329, 333, 334, 338, 339, 343, 344, 348, 349, 353, 354,
     358, 359, 363, 364, 368, 369, 373, 374, 378, 379, 383, 384, 388, 389,
     393, 394, 398, 399, 403, 404, 408, 409, 413, 414, 418, 419, 423, 424,
     428, 429, 433, 434, 438, 439, 443, 444, 448, 449, 453, 454, 458, 459,
     463, 464, 468, 469, 473, 474, 478, 479, 483, 484, 488, 489, 493, 494,
     498, 499, 503, 504, 508, 509, 513, 514, 518, 519, 523, 524, 528, 529,
     533, 534, 538, 539, 543, 544, 548, 549, 553, 554, 558, 559, 563, 564,
     568, 569, 573, 574, 578, 579, 583, 584, 588, 589, 593, 594, 598, 599,
     603, 604, 608, 609, 613, 614, 618, 619, 623, 624, 628, 629, 633, 634,
     641, 646, 651, 656, 661, 666, 671, 676, 681, 686, 691, 696, 701, 706,
     711, 716, 721, 726, 731, 736, 741, 746, 751, 756, 761, 766, 771, 776,
     781, 786, 791, 796, 801, 806, 811, 816, 821, 826, 831, 836, 841, 846,
     851, 856, 861, 866, 871, 876, 881, 886, 891, 896, 901, 906, 911, 916,
     921, 926, 931, 936, 941, 946, 951, 956, 961, 966, 971, 976, 981, 986,
     991, 996}

DriftUp ==
    {11, 16, 79, 83, 84, 88, 89, 93, 94, 98, 99, 103, 104, 108, 109, 113,
     114, 118, 119, 123, 124, 128, 129, 133, 134, 138, 139, 143, 144, 148,
     149, 153, 154, 161, 166, 171, 176, 181, 186, 191, 196, 201, 206, 211,
     216, 221, 226, 231, 236, 241, 246, 251, 256, 261, 266, 271, 276, 281,
     286, 291, 296, 301, 306, 311, 316}

\* app.js:194, 557: t = audioPlayer.currentTime + 0.15
FrameTime(clock) ==
    Instant(clock + LeadBias)
        + (IF clock \in DriftDown THEN -1 ELSE IF clock \in DriftUp THEN 1 ELSE 0)

(***************************************************************************)
(* State                                                                   *)
(***************************************************************************)
\* the two closures of app.js, in the order their listeners run
Builds == {"overlay", "split"}

VARIABLES
    hasOverlay,       \* the document has #captionOverlay and #captionText
                      \*   (app.js:5), the elements of the overlay closure
    segments,         \* overlay: let segments = []            (app.js:9)
    activeIdx,        \* overlay: let activeIdx = -1           (app.js:9)
    captionText,      \* overlay: captionText.textContent      (app.js:5)
    overlayHidden,    \* overlay: captionOverlay has class 'hidden' (app.js:243)
    lines,            \* split: let lines = []                 (app.js:356)
    activeLine,       \* split: let activeLine = null          (app.js:356)
                      \*   NullEl, DetachedEl, or i for lines[i].el
    lineClass,        \* split: 'active'/'near' of lines[i].el.classList
    captionsVisible,  \* let captionsVisible of each closure   (app.js:239, 622)
    currentTime,      \* audioPlayer.currentTime as it reads, in ticks
    duration,         \* audioPlayer.duration, in ticks, 0 for NaN
    readerOpen,       \* a show() has run to its end: pdfFrame and audioBar
                      \* are displayed
    synced,           \* per closure: its frame callback has run since the
                      \* clock, its transcript or its captions flag changed
    emitted,          \* per closure: what that frame wrote to the page, the
                      \* segment it took the highlight from and the one it
                      \* gave it to
    loaded            \* per closure: the transcript its last show() gave to
                      \* buildcaptions

\* the player, the panels and what the page keeps in localStorage
VARIABLES
    src,              \* audioPlayer.src: the audio_url show() gave it, 0 if none
    audioPathName,    \* let audioPathName = '' of each closure (app.js:213,
                      \*   590), 0 for ''
    saved,            \* localStorage 'pos_' + path of each audio, in ticks
    now,              \* Date.now()
    saveThrottle,     \* overlay: let saveThrottle = 0        (app.js:10)
    lastWrite,        \* Date.now() of the last setItem('pos_...') of this page
    lastGap,          \* milliseconds between the last two of them
    scheduled,        \* per closure: its synccaptions callbacks requested
                      \* for the next frame
    pdfVisible,       \* split: let pdfVisible               (app.js:621)
    storedPdf,        \* localStorage 'panelPdfVisible'
    storedCaptions    \* localStorage 'panelCaptionsVisible'

\* the caption engines of the two closures
engineVars == <<segments, activeIdx, captionText, lines, activeLine, lineClass,
                synced, emitted, loaded>>

\* the audio player and the reader around it
playVars == <<currentTime, duration, src, readerOpen>>

\* the panel flags, in memory, on the page and in localStorage
panelVars == <<captionsVisible, pdfVisible, overlayHidden, storedPdf,
               storedCaptions>>

\* the saved positions
saveVars == <<audioPathName, saved, saveThrottle, lastWrite, lastGap>>

syncVars == <<hasOverlay, engineVars, playVars, panelVars, saveVars, now,
              scheduled>>

VARIABLES
    jobs,             \* server: state of each job record, "absent" if none
    chosen,           \* which of pdfUpload.files[0], audioUpload.files[0] exist
    uploadBtnDisabled,\* uploadBtn.disabled
    statusMsg,        \* statusMsg.textContent                 (app.js:66)
    poll,             \* let poll = null of each closure (app.js:9, 356): the
                      \* number of its last timer, 0 for null
    timers,           \* the interval timers that are set: the closure that
                      \* set it, its number, the job id of the callback's
                      \* closure, time since the last firing
    fetches,          \* bag of fetch('/status/' + id) of the poll callbacks
                      \* that await the reply or its body
    uploads,          \* bag of fetch('/upload') of the click handlers that
                      \* await the reply or its body
    historyFetch,     \* per closure: the fetch('/history') of loadHistory
    history,          \* job ids of the items in historyList
    historyBy,        \* the closure whose loadHistory made those items
    historyBar,       \* historyBar is displayed
    currentJobId,     \* let currentJobId = null of each closure (app.js:9, 356)
    lastJobId,        \* localStorage 'lastJobId'               (app.js:420)
    handled,          \* the completed or error reply a poll callback
                      \* handled in the step that led here, and whether its
                      \* show ran to its end
    pollCap           \* how many startPoll calls of one closure a run of
                      \* the page is followed for

\* the service (spec sections 3 to 5)
VARIABLES
    audioOf,          \* Job.audio_identity of each job, 0 while there is none
    cachedAtSubmit,   \* the jobs whose audio had a cached Transcript when
                      \* they were submitted
    cache,            \* Transcript Cache: identity -> Transcript or a miss
    inflight,         \* transcription runs in flight, per identity
    runs              \* transcription runs started so far, per identity

serviceVars == <<audioOf, cachedAtSubmit, cache, inflight, runs>>

\* the upload button and the status line
buttonVars == <<uploadBtnDisabled, statusMsg>>

\* the requests of the page that are under way
netVars == <<fetches, uploads, historyFetch>>

\* the history list
listVars == <<history, historyBy, historyBar>>

\* the upload and polling side of the page, and the service
pageVars == <<jobs, chosen, buttonVars, poll, timers, netVars, listVars,
              currentJobId, lastJobId, pollCap, serviceVars>>

pollVars == <<pageVars, handled>>

vars == <<syncVars, pollVars>>

\* the same value for both closures
Both(x) == [b \in Builds |-> x]

\* a frame that wrote nothing
NoUpdate == [exit |-> -1, enter |-> -1]

\* a frame that moved the highlight from segment i to segment j (-1: none)
Update(i, j) == [exit |-> i, enter |-> j]

\* the segment lines[i].el === activeLine, -1 when there is none
ActiveLineIdx == IF activeLine >= 0 THEN activeLine ELSE -1

\* no completed or error reply handled in this step
NoReply == [build |-> "none", by |-> 0, job |-> NoJob, status |-> "none",
            showed |-> FALSE]

\* a step that is none of the upload and polling side
NoPollStep == handled' = NoReply /\ UNCHANGED pageVars

PlainSeg(txt, s, e) == [text |-> txt, start |-> s, end |-> e, words |-> <<>>]

Transcript(raw) == [present |-> TRUE, segments |-> raw]

\* a status reply without a transcript
NoTranscript == [present |-> FALSE, segments |-> <<>>]

\* A service that has seen no upload: room for nJobs jobs on nAudio
\* distinct audio contents, nothing cached, nothing running.
InitServiceEmpty(nJobs, nAudio) ==
    /\ jobs = [j \in 1..nJobs |-> "absent"]
    /\ audioOf = [j \in 1..nJobs |-> 0]
    /\ cachedAtSubmit = {}
    /\ cache = [a \in 1..nAudio |-> NoTranscript]
    /\ inflight = [a \in 1..nAudio |-> 0]
    /\ runs = [a \in 1..nAudio |-> 0]

\* a fetch('/history') that awaits its reply (app.js:144, 497)
HistorySent == [stage |-> "sent", items |-> {}]

\* loadHistory has returned
HistoryDone == [stage |-> "done", items |-> {}]

\* The upload and polling side of the page after DOMContentLoaded in a
\* browser that stores no last job: nothing chosen, no job on the server,
\* and the loadHistory() of each closure has sent its request (app.js:187,
\* 540).
InitPageIdle ==
    /\ chosen = {}
    /\ uploadBtnDisabled = TRUE
    /\ statusMsg = ""
    /\ poll = Both(0)
    /\ timers = {}
    /\ fetches = EmptyBag
    /\ uploads = EmptyBag
    /\ historyFetch = Both(HistorySent)
    /\ history = {}
    /\ historyBy = "overlay"
    /\ historyBar = FALSE
    /\ currentJobId = Both(NoJob)
    /\ lastJobId = NoJob
    /\ handled = NoReply
    /\ pollCap = MaxPolls

\* The service with the books of earlier sessions: job j brought the audio
\* audios[j] and is completed, the cache holds books[a] for the audio a
\* (spec sections 4.2, 4.4), and nothing is running.  A job whose audio the
\* cache has no entry for is answered without a transcript.
InitLibrary(audios, books) ==
    /\ jobs = [j \in DOMAIN audios |-> "completed"]
    /\ audioOf = audios
    /\ cachedAtSubmit = {}
    /\ cache = books
    /\ inflight = [a \in DOMAIN books |-> 0]
    /\ runs = [a \in DOMAIN books |-> 0]

\* The upload and polling side of a page in which both closures have polled
\* the job j and their callbacks have run the completed branch (app.js:77-82,
\* 415-421): the split's show() has hidden the history bar.
InitPageOpened(j) ==
    /\ chosen = {}
    /\ uploadBtnDisabled = FALSE
    /\ statusMsg = "Ready"
    /\ poll = Both(1)
    /\ timers = {}
    /\ fetches = EmptyBag
    /\ uploads = EmptyBag
    /\ historyFetch = Both(HistoryDone)
    /\ history = {j}
    /\ historyBy = "split"
    /\ historyBar = FALSE
    /\ currentJobId = Both(j)
    /\ lastJobId = j
    /\ handled = NoReply
    /\ pollCap = MaxPolls

\* what localStorage holds under a panel key: nothing, 'true' or 'false'
StoredFlags == {"none", "true", "false"}

\* app.js:239, 621-622: saved !== 'false'
ReadFlag(st) == st # "false"

\* localStorage.setItem(key, flag) stores the flag as a string
WriteFlag(b) == IF b THEN "true" ELSE "false"

\* new URL(audioPlayer.src).pathname: audio_url is a path on the page's own
\* origin, one per audio, and the path of the resolved URL is that path
PathName(url) == url

\* localStorage.getItem('pos_' + path)
SavedTime(path) == IF path \in DOMAIN saved THEN saved[path] ELSE NoPos

\* the positions m after localStorage.setItem('pos_' + path, t)
Store(m, path, t) ==
    [k \in DOMAIN m \cup {path} |-> IF k = path THEN t ELSE m[k]]

\* The player and the panels after DOMContentLoaded in a browser that has
\* no position saved: no audio, each frame loop requested once (app.js:210,
\* 587), the panel flags of both closures read from localStorage, where a
\* former page left at least one panel shown.
InitPlayer ==
    /\ src = 0
    /\ audioPathName = Both(0)
    /\ saved = <<>>
    /\ now = 0
    /\ saveThrottle = Epoch
    /\ lastWrite = Epoch
    /\ lastGap = NoGap
    /\ scheduled = Both(1)
    /\ storedCaptions \in StoredFlags
    /\ storedPdf \in {st \in StoredFlags : ReadFlag(st) \/ ReadFlag(storedCaptions)}
    /\ captionsVisible = Both(ReadFlag(storedCaptions))
    /\ pdfVisible = ReadFlag(storedPdf)

\* nothing stored under the panel keys: both panels are shown
FreshStorage == storedPdf = "none" /\ storedCaptions = "none"

\* The page after DOMContentLoaded, before any transcript is shown.
InitSync ==
    /\ hasOverlay \in BOOLEAN
    /\ segments = <<>>
    /\ activeIdx = -1
    /\ captionText = <<>>
    /\ overlayHidden = FALSE
    /\ lines = <<>>
    /\ activeLine = NullEl
    /\ lineClass = <<>>
    /\ currentTime = 0
    /\ duration = 0
    /\ readerOpen = FALSE
    /\ synced = Both(FALSE)
    /\ emitted = Both(NoUpdate)
    /\ loaded = Both(NoTranscript)
    /\ InitPlayer

(***************************************************************************)
(* buildcaptions                                                           *)
(***************************************************************************)
\* buildcaptions that replaces the list and forgets the two resets
BuildcaptionsOverlayKeepsCaption(data) ==
    /\ segments' = BuildSegments(data)
    /\ UNCHANGED <<activeIdx, captionText>>

\* app.js:124-139
BuildcaptionsOverlay(data) ==
    /\ segments' = BuildSegments(data)
    /\ activeIdx' = -1
    /\ captionText' = <<>>

\* classList of freshly created caption lines, and after line 583
NoHighlight(n) == [i \in 1..n |-> {}]

\* app.js:462-492: the old elements leave the document, the new ones carry
\* no class; activeLine is not assigned and keeps pointing at an old element
BuildcaptionsSplit(data) ==
    /\ lines' = BuildSegments(data)
    /\ lineClass' = NoHighlight(Len(BuildSegments(data)))
    /\ activeLine' = IF activeLine = NullEl THEN NullEl ELSE DetachedEl

\* audioPlayer.src = audioUrl (app.js:117, 453) starts the load of the new
\* audio: the length is unknown and the playback position is 0.  A position
\* assigned while the player had no metadata is its default playback start
\* position, which the load leaves alone and which currentTime reads.
SetSrc(url) ==
    /\ src' = url
    /\ duration' = 0
    /\ currentTime' = IF duration = 0 THEN currentTime ELSE 0
    /\ readerOpen' = TRUE

\* app.js:93-121: show(pdfUrl, audioUrl, transcript, title) of the overlay
\* closure.  Without #captionOverlay its applyPanelVisibility() of line 110
\* throws (line 243) before anything of the reader is set.
ShowOverlay(data, url) ==
    IF hasOverlay
    THEN /\ overlayHidden' = ~captionsVisible["overlay"]
         /\ storedCaptions' = WriteFlag(captionsVisible["overlay"])
         /\ SetSrc(url)
         /\ BuildcaptionsOverlay(data)
         /\ loaded' = [loaded EXCEPT !["overlay"] = data]
         /\ synced' = Both(FALSE)
         /\ emitted' = Both(NoUpdate)
         /\ UNCHANGED <<lines, activeLine, lineClass, captionsVisible,
                        pdfVisible, storedPdf, historyBar>>
    ELSE UNCHANGED <<engineVars, playVars, panelVars, historyBar>>

\* app.js:432-459: show(pdfUrl, audioUrl, transcript, title) of the split
\* closure
ShowSplit(data, url) ==
    /\ historyBar' = FALSE
    /\ storedPdf' = WriteFlag(pdfVisible)
    /\ storedCaptions' = WriteFlag(captionsVisible["split"])
    /\ SetSrc(url)
    /\ BuildcaptionsSplit(data)
    /\ loaded' = [loaded EXCEPT !["split"] = data]
    /\ synced' = Both(FALSE)
    /\ emitted' = Both(NoUpdate)
    /\ UNCHANGED <<segments, activeIdx, captionText, captionsVisible,
                   pdfVisible, overlayHidden>>

\* show() of closure b; it leaves the saved positions, the wall clock and
\* the frame loops alone
ShowReader(b, data, url) ==
    /\ IF b = "overlay" THEN ShowOverlay(data, url) ELSE ShowSplit(data, url)
    /\ UNCHANGED <<hasOverlay, saveVars, now, scheduled>>

\* whether the show() of closure b runs to its end
Shows(b) == b = "split" \/ hasOverlay

(***************************************************************************)
(* synccaptions: one animation frame                                       *)
(***************************************************************************)
\* what a frame callback leaves behind when it writes nothing
OverlayIdle == [activeIdx |-> activeIdx, captionText |-> captionText,
                emitted |-> NoUpdate]

SplitIdle == [activeLine |-> activeLine, lineClass |-> lineClass,
              emitted |-> NoUpdate]

\* a frame that resumes the scan at the active segment instead of at 0
SynccaptionsOverlayCursor ==
    IF segments = <<>> \/ ~captionsVisible["overlay"]
    THEN OverlayIdle
    ELSE LET idx == ScanFrom(segments, FrameTime(currentTime),
                             IF activeIdx >= 0 THEN activeIdx ELSE 0)
         IN IF idx # activeIdx
            THEN [activeIdx |-> idx,
                  captionText |-> IF idx # -1 THEN segments[idx + 1].text
                                  ELSE <<>>,
                  emitted |-> Update(activeIdx, idx)]
            ELSE OverlayIdle

\* a frame that leaves the old caption in place when no segment matches
SynccaptionsOverlayKeepsText ==
    IF segments = <<>> \/ ~captionsVisible["overlay"]
    THEN OverlayIdle
    ELSE LET idx == ScanIdx(segments, FrameTime(currentTime))
         IN IF idx # activeIdx
            THEN [activeIdx |-> idx,
                  captionText |-> IF idx # -1 THEN segments[idx + 1].text
                                  ELSE captionText,
                  emitted |-> Update(activeIdx, idx)]
            ELSE OverlayIdle

\* app.js:190-209: what one callback of the overlay's frame loop assigns
SynccaptionsOverlay ==
    IF segments = <<>> \/ ~captionsVisible["overlay"]
    THEN OverlayIdle
    ELSE LET idx == ScanIdx(segments, FrameTime(currentTime))
         IN IF idx # activeIdx
            THEN [activeIdx |-> idx,
                  captionText |-> IF idx # -1 THEN segments[idx + 1].text
                                  ELSE <<>>,
                  emitted |-> Update(activeIdx, idx)]
            ELSE OverlayIdle

\* the classes added without line 568's removal from every line
HighlightKeepsOld(n, idx) ==
    [i \in 1..n |->
        IF i - 1 = idx THEN lineClass[i] \cup {"active"}
        ELSE IF i - 1 >= idx - 2 /\ i - 1 <= idx + 2
             THEN lineClass[i] \cup {"near"}
        ELSE lineClass[i]]

\* classList after lines 568-574: 'active' on idx, 'near' within two lines
Highlight(n, idx) ==
    [i \in 1..n |->
        IF i - 1 = idx THEN {"active"}
        ELSE IF i - 1 >= idx - 2 /\ i - 1 <= idx + 2 THEN {"near"}
        ELSE {}]

\* a frame that highlights on every match, without the test on activeLine
SynccaptionsSplitEveryFrame ==
    IF lines = <<>>
    THEN SplitIdle
    ELSE LET idx == ScanIdx(lines, FrameTime(currentTime))
         IN IF idx # -1
            THEN [activeLine |-> idx,
                  lineClass |-> Highlight(Len(lines), idx),
                  emitted |-> Update(ActiveLineIdx, idx)]
            ELSE IF idx = -1 /\ activeLine # NullEl
            THEN [activeLine |-> NullEl,
                  lineClass |-> NoHighlight(Len(lines)),
                  emitted |-> Update(ActiveLineIdx, -1)]
            ELSE SplitIdle

\* app.js:557-586: what the body of the split's synccaptions assigns with
\* the player at position t
SplitFrameAt(t) ==
    IF lines = <<>>
    THEN SplitIdle
    ELSE LET idx == ScanIdx(lines, FrameTime(t))
         IN IF idx # -1 /\ activeLine # idx
            THEN [activeLine |-> idx,
                  lineClass |-> Highlight(Len(lines), idx),
                  emitted |-> Update(ActiveLineIdx, idx)]
            ELSE IF idx = -1 /\ activeLine # NullEl
            THEN [activeLine |-> NullEl,
                  lineClass |-> NoHighlight(Len(lines)),
                  emitted |-> Update(ActiveLineIdx, -1)]
            ELSE SplitIdle

\* app.js:554-586: what one callback of the split's frame loop assigns
SynccaptionsSplit == SplitFrameAt(currentTime)

\* One animation frame: the browser runs the callbacks requested for it,
\* the overlay's, registered first (app.js:210), then the split's (app.js:
\* 587).  Each requests itself again first (lines 191, 555), so as many are
\* scheduled after the frame as before.
AnimationFrame ==
    /\ activeIdx' = SynccaptionsOverlay.activeIdx
    /\ captionText' = SynccaptionsOverlay.captionText
    /\ activeLine' = SynccaptionsSplit.activeLine
    /\ lineClass' = SynccaptionsSplit.lineClass
    /\ emitted' = [overlay |-> SynccaptionsOverlay.emitted,
                   split |-> SynccaptionsSplit.emitted]
    /\ synced' = Both(TRUE)
    /\ UNCHANGED <<hasOverlay, segments, lines, loaded, playVars, panelVars,
                   saveVars, now, scheduled>>
    /\ NoPollStep

(***************************************************************************)
(* Inputs: recordings, and transcripts as GET /status returns them         *)
(***************************************************************************)
Max(a, b) == IF a >= b THEN a ELSE b

Min(a, b) == IF a <= b THEN a ELSE b

\* audioPlayer.duration once the metadata of audio a is read, in ticks: the
\* length of the recording, whatever its transcript says.  Audio 1 is the
\* long recording, the others are short ones.
AudioLength(a) == IF a = 1 THEN LongTicks ELSE ShortTicks

\* spec.md section 8: segments (0,2), (2,4), (5,7) seconds
ExampleTranscript ==
    Transcript(<<PlainSeg(<<"a">>, 0, 40), PlainSeg(<<"b">>, 40, 80),
                 PlainSeg(<<"c">>, 100, 140)>>)

SegTimes == FirstTime..(FirstTime + MaxSpan)

\* every segment with start <= end in the window
GenSegs ==
    UNION {{PlainSeg(<<"a">>, s, e) : e \in s..(FirstTime + MaxSpan)} : s \in SegTimes}

SeqsUpTo(S, n) == UNION {[1..k -> S] : k \in 0..n}

\* every transcript of at most MaxSegs such segments, in any order,
\* overlapping or not
GenInputs == {Transcript(q) : q \in SeqsUpTo(GenSegs, MaxSegs)}

\* raw segments of the kinds buildcaptions tells apart: a plain one, one
\* timed by its words that overlaps it and the last, one whose text is
\* blank, a plain one that follows the first
SampleList ==
    << PlainSeg(<<"a">>, FirstTime, FirstTime + 1),
       [text |-> <<"x">>, start |-> 0, end |-> 0,
        words |-> <<[word |-> <<" ", "c">>, start |-> FirstTime, end |-> FirstTime + 1],
                    [word |-> <<"d", "\n">>, start |-> FirstTime + 1,
                     end |-> FirstTime + MaxSpan]>>],
       PlainSeg(<<" ", "U+00A0">>, FirstTime, FirstTime + MaxSpan),
       PlainSeg(<<"\t", "b">>, FirstTime + 1, FirstTime + MaxSpan) >>

SampleSegs == {SampleList[i] : i \in DOMAIN SampleList}

(***************************************************************************)
(* The sync engine: transcript loads, playback, seeks, frames              *)
(***************************************************************************)
\* the audio contents the service can be given
AudioIds == DOMAIN cache

\* a step of the player or of a key that leaves the clock at c
MoveTo(c) ==
    /\ currentTime' = c
    /\ synced' = IF c = currentTime THEN synced ELSE Both(FALSE)
    /\ emitted' = IF c = currentTime THEN emitted ELSE Both(NoUpdate)
    /\ UNCHANGED <<hasOverlay, segments, activeIdx, captionText, lines,
                   activeLine, lineClass, loaded, duration, src, readerOpen,
                   panelVars, saveVars, now, scheduled>>
    /\ NoPollStep

\* playback advances the clock
Play ==
    /\ currentTime < duration
    /\ MoveTo(currentTime + 1)

\* the slider of the player's controls: with the metadata read, the clock
\* jumps anywhere in the recording
Seek ==
    \E c \in 0..duration :
        /\ c % SliderStep = 0
        /\ c # currentTime
        /\ MoveTo(c)

\* what audioPlayer.currentTime reads after an assignment of t: with the
\* metadata read the player seeks, to the end at most; before, t becomes
\* its default playback start position
SeekTo(t) == IF duration > 0 THEN Min(t, duration) ELSE t

\* app.js:310-314, 762-765: each listener assigns Math.max(0, currentTime - 10)
ArrowLeftKey(ct) == SeekTo(Max(0, ct - SkipTicks))

\* app.js:317-322: Math.min(isFinite(duration) ? duration : Infinity,
\* currentTime + 10)
ArrowRightOverlay(ct) ==
    SeekTo(IF duration > 0 THEN Min(duration, ct + SkipTicks) ELSE ct + SkipTicks)

\* app.js:767-771: Math.min(audioPlayer.duration || 0, currentTime + 10)
ArrowRightSplit(ct) == SeekTo(Min(duration, ct + SkipTicks))

\* keydown ArrowLeft: the overlay's listener, then the split's
ArrowLeft == MoveTo(ArrowLeftKey(ArrowLeftKey(currentTime)))

\* keydown ArrowRight: the overlay's listener, then the split's
ArrowRight == MoveTo(ArrowRightSplit(ArrowRightOverlay(currentTime)))

\* app.js:487: a click on a caption line seeks to its start and plays
LineClick ==
    \E i \in 1..Len(lines) : MoveTo(SeekTo(lines[i].start))

\* the frame loops requested once more by the split's handler, followed up
\* to MaxLoops
OneMoreLoop == [scheduled EXCEPT !["split"] = IF @ < MaxLoops THEN @ + 1 ELSE @]

\* app.js:224-231, 599-608: the player has read the metadata of the audio
\* that show() set.  It has a length now, and a default playback start
\* position becomes its position, the end at most.  Then the overlay's
\* listener runs, then the split's: each names its key, and a saved
\* position of more than two seconds is restored; the split's listener then
\* runs synccaptions at once, which requests itself for the next frame a
\* further time (line 555).
LoadedMetadata ==
    /\ src # 0
    /\ duration = 0
    /\ duration' = AudioLength(src)
    /\ audioPathName' = Both(PathName(src))
    /\ LET savedTime == SavedTime(PathName(src))
           length == AudioLength(src)
       IN IF savedTime # NoPos /\ savedTime > RestoreMinTicks
          THEN LET frame == SplitFrameAt(Min(savedTime, length))
               IN /\ currentTime' = Min(savedTime, length)
                  /\ activeLine' = frame.activeLine
                  /\ lineClass' = frame.lineClass
                  /\ emitted' = [overlay |-> NoUpdate, split |-> frame.emitted]
                  /\ synced' = [overlay |-> FALSE, split |-> TRUE]
                  /\ scheduled' = OneMoreLoop
          ELSE /\ currentTime' = Min(currentTime, length)
               /\ synced' = IF currentTime <= length THEN synced
                            ELSE Both(FALSE)
               /\ emitted' = IF currentTime <= length THEN emitted
                             ELSE Both(NoUpdate)
               /\ UNCHANGED <<activeLine, lineClass, scheduled>>
    /\ UNCHANGED <<hasOverlay, segments, activeIdx, captionText, lines,
                   loaded, src, readerOpen, panelVars, saved, saveThrottle,
                   lastWrite, lastGap, now>>
    /\ NoPollStep

\* the panel flags of the page: each closure's captionsVisible, the split's
\* pdfVisible, the overlay's class and the two keys of localStorage
Panels ==
    [cv |-> captionsVisible, pdf |-> pdfVisible, hidden |-> overlayHidden,
     sPdf |-> storedPdf, sCap |-> storedCaptions]

\* app.js:249-252 on panel flags p: the overlay's listener flips its flag;
\* its applyPanelVisibility (241-247) throws at line 243 in a document
\* without #captionOverlay, before it stores the flag
ToggleCaptionsOverlay(p) ==
    LET flag == ~p.cv["overlay"]
    IN IF hasOverlay
       THEN [p EXCEPT !.cv["overlay"] = flag, !.hidden = ~flag,
                      !.sCap = WriteFlag(flag)]
       ELSE [p EXCEPT !.cv["overlay"] = flag]

\* app.js:624-647 on panel flags p: the split's applyPanelVisibility
\* stores both of its flags
ApplyPanelVisibility(p) ==
    [p EXCEPT !.sPdf = WriteFlag(p.pdf), !.sCap = WriteFlag(p.cv["split"])]

\* app.js:656-661 on panel flags p: the split's listener
ToggleCaptionsSplit(p) ==
    IF p.cv["split"] /\ ~p.pdf
    THEN p
    ELSE ApplyPanelVisibility([p EXCEPT !.cv["split"] = ~p.cv["split"]])

\* app.js:650-654 on panel flags p
TogglePdf(p) ==
    IF p.pdf /\ ~p.cv["split"]
    THEN p
    ELSE ApplyPanelVisibility([p EXCEPT !.pdf = ~p.pdf])

\* the page takes panel flags q
SetPanels(q) ==
    /\ captionsVisible' = q.cv
    /\ pdfVisible' = q.pdf
    /\ overlayHidden' = q.hidden
    /\ storedPdf' = q.sPdf
    /\ storedCaptions' = q.sCap
    /\ synced' = IF q.cv = captionsVisible THEN synced ELSE Both(FALSE)
    /\ emitted' = IF q.cv = captionsVisible THEN emitted ELSE Both(NoUpdate)
    /\ UNCHANGED <<hasOverlay, segments, activeIdx, captionText, lines,
                   activeLine, lineClass, loaded, playVars, saveVars, now,
                   scheduled>>
    /\ NoPollStep

\* a click on #toggleCaptions: the overlay's listener, then the split's
ToggleCaptions == SetPanels(ToggleCaptionsSplit(ToggleCaptionsOverlay(Panels)))

\* a click on #togglePdf, which only the split closure listens to
TogglePdfClick == SetPanels(TogglePdf(Panels))

(***************************************************************************)
(* One frame on a given transcript and clock                               *)
(***************************************************************************)
\* The page right after both closures were shown a transcript and the
\* player read the metadata, the clock anywhere in the recording: the
\* example of spec.md on the long recording, the generated transcripts on
\* the short one.
InitScan ==
    \E data \in GenInputs \cup {ExampleTranscript} :
        /\ hasOverlay \in BOOLEAN
        /\ captionsVisible \in {Both(TRUE), Both(FALSE)}
        /\ segments = IF hasOverlay THEN BuildSegments(data) ELSE <<>>
        /\ activeIdx = -1
        /\ captionText = <<>>
        /\ overlayHidden = (hasOverlay /\ ~captionsVisible["overlay"])
        /\ lines = BuildSegments(data)
        /\ activeLine = NullEl
        /\ lineClass = NoHighlight(Len(BuildSegments(data)))
        /\ src = IF data = ExampleTranscript THEN 1 ELSE 2
        /\ duration = AudioLength(src)
        /\ currentTime \in 0..duration
        /\ readerOpen = TRUE
        /\ synced = Both(FALSE)
        /\ emitted = Both(NoUpdate)
        /\ loaded = [overlay |-> IF hasOverlay THEN data ELSE NoTranscript,
                     split |-> data]
        /\ audioPathName = Both(PathName(src))
        /\ saved = <<>>
        /\ now = 0
        /\ saveThrottle = Epoch
        /\ lastWrite = Epoch
        /\ lastGap = NoGap
        /\ scheduled = Both(1)
        /\ pdfVisible = TRUE
        /\ storedPdf = "true"
        /\ storedCaptions = WriteFlag(captionsVisible["split"])
        /\ InitLibrary(<<src>>, [a \in 1..2 |-> IF a = src THEN data
                                                   ELSE NoTranscript])
        /\ InitPageOpened(1)

NextScan == AnimationFrame

SpecScan == InitScan /\ [][NextScan]_vars

(***************************************************************************)
(* The reader open on the example of spec.md                               *)
(***************************************************************************)
\* both closures have opened the example and the player is at its start
InitSeek ==
    /\ InitScan
    /\ loaded["split"] = ExampleTranscript
    /\ currentTime = 0

\* the user plays, seeks, uses the keys and the caption lines and toggles
\* the captions; frames come in between
NextSeek ==
    \/ AnimationFrame
    \/ Play
    \/ Seek
    \/ ArrowLeft
    \/ ArrowRight
    \/ LineClick
    \/ ToggleCaptions

SpecSeek == InitSeek /\ [][NextSeek]_vars

(***************************************************************************)
(* Upload and polling                                                      *)
(***************************************************************************)
JobIds == DOMAIN jobs

\* the id of a job of an earlier session that the service no longer has
GoneJob == Len(jobs) + 1

\* JobState of the service (spec section 3)
JobStates == {"queued", "transcribing", "completed", "error"}

Terminal == {"completed", "error"}

BothFiles == {"pdf", "audio"}

\* transcribe(audio): what the recognition model returns for the audio a,
\* a pure function of its bytes (spec section 4.2)
AudioTranscript(a) ==
    IF a % 2 = 1 THEN ExampleTranscript
    ELSE Transcript(<<PlainSeg(<<"a">>, 0, LeadBias)>>)

\* the Transcript the cache holds for the audio of job j, a miss if none
JobTranscript(j) == cache[audioOf[j]]

\* the bag b with one copy of e added, removed
Put(b, e) == b (+) SetToBag({e})

Take(b, e) == b (-) SetToBag({e})

\* clearInterval(poll) of closure b, whose poll holds id: app.js:71, 78,
\* 84, 409, 416, 423
ClearInterval(ts, b, id) == {tm \in ts : ~(tm.build = b /\ tm.id = id)}

\* app.js:70-90, 408-429: startPoll(id) of closure b cancels the timer its
\* `poll` names and sets a new one; the callback's first run is one
\* interval away
StartPoll(b, id) ==
    /\ poll' = [poll EXCEPT ![b] = @ + 1]
    /\ timers' = ClearInterval(timers, b, poll[b])
                 \cup {[build |-> b, id |-> poll[b] + 1, job |-> id, wait |-> 0]}

\* the uploads of closure b that are under way
UploadsOf(b) == {u \in BagToSet(uploads) : u.build = b}

\* startPoll of closure b may still be called: by this step and by every
\* upload of b whose reply is still to come
PollsLeft(b) ==
    poll[b] + BagCardinality([u \in UploadsOf(b) |-> uploads[u]]) < pollCap

\* files[0] of the two inputs after a change event on input k: the picker
\* returned a file, or the selection was cleared
Changed(k, picked) == IF picked THEN chosen \cup {k} ELSE chosen \ {k}

\* app.js:19-37, 359-376: the change handlers of a file input, each with
\* its checkReady()
ChooseFile ==
    \E k \in BothFiles, picked \in BOOLEAN :
        /\ chosen' = Changed(k, picked)
        /\ uploadBtnDisabled' = ~(BothFiles \subseteq Changed(k, picked))
        /\ handled' = NoReply
        /\ UNCHANGED <<jobs, statusMsg, poll, timers, netVars, listVars,
                       currentJobId, lastJobId>>
        /\ UNCHANGED <<syncVars, serviceVars, pollCap>>

\* the request of closure b that carries the audio a
Upload(b, a) == [build |-> b, stage |-> "sent", job |-> NoJob, audio |-> a]

\* app.js:44-53, 383-391: the two click handlers past their first line, up
\* to and including their fetch: the overlay's, then the split's, each with
\* the chosen files, whose audio is a
SendUpload ==
    \E a \in AudioIds :
        /\ \A b \in Builds : PollsLeft(b)
        /\ uploadBtnDisabled' = TRUE
        /\ statusMsg' = "Uploading"
        /\ uploads' = Put(Put(uploads, Upload("overlay", a)), Upload("split", a))
        /\ handled' = NoReply
        /\ UNCHANGED <<jobs, chosen, poll, timers, fetches, historyFetch,
                       listVars, currentJobId, lastJobId>>
        /\ UNCHANGED <<syncVars, serviceVars, pollCap>>

\* click handlers that do not look at the file inputs
UploadClickAnyFiles ==
    /\ ~uploadBtnDisabled
    /\ SendUpload

\* app.js:40-53, 379-391: the upload button's click handlers up to their
\* fetch; a disabled button receives no click, a missing file makes each
\* return at once
UploadClick ==
    /\ ~uploadBtnDisabled
    /\ IF chosen # BothFiles THEN UNCHANGED vars ELSE SendUpload

\* The service's submit (spec section 4.4): a Job record is created in
\* `queued` under the next id for an upload whose audio has identity a;
\* whether the cache holds a Transcript for a at this moment is noted.
Submit(j, a) ==
    /\ jobs[j] = "absent"
    /\ \A i \in 1..(j - 1) : jobs[i] # "absent"
    /\ jobs' = [jobs EXCEPT ![j] = "queued"]
    /\ audioOf' = [audioOf EXCEPT ![j] = a]
    /\ cachedAtSubmit' = IF cache[a].present THEN cachedAtSubmit \cup {j}
                         ELSE cachedAtSubmit
    /\ UNCHANGED <<cache, inflight, runs>>

\* POST /upload at the service, and the network: the upload is accepted and
\* submitted, or it is rejected with an error body that carries no job_id,
\* or the request fails outright.
ServeUpload ==
    \E u \in BagToSet(uploads) :
        /\ u.stage = "sent"
        /\ \/ \E j \in JobIds :
                /\ Submit(j, u.audio)
                /\ uploads' = Put(Take(uploads, u),
                                  [u EXCEPT !.stage = "ok", !.job = j])
           \/ /\ uploads' = Put(Take(uploads, u), [u EXCEPT !.stage = "rejected"])
              /\ UNCHANGED <<jobs, serviceVars>>
           \/ /\ uploads' = Put(Take(uploads, u), [u EXCEPT !.stage = "failed"])
              /\ UNCHANGED <<jobs, serviceVars>>
        /\ handled' = NoReply
        /\ UNCHANGED <<chosen, buttonVars, poll, timers, fetches,
                       historyFetch, listVars, currentJobId, lastJobId,
                       pollCap>>
        /\ UNCHANGED syncVars

\* app.js:58-62, 396-400: the catch branch of the click handler
UploadFailed ==
    /\ statusMsg' = "Upload failed"
    /\ uploadBtnDisabled' = FALSE
    /\ UNCHANGED <<poll, timers>>

\* app.js:55-57, 393-395: the body is read; startPoll(job_id)
UploadAccepted(b, id) ==
    /\ statusMsg' = "Transcribing"
    /\ StartPoll(b, id)
    /\ UNCHANGED uploadBtnDisabled

\* app.js:52-54, 391-392: a click handler resumes when its fetch settles.
\* A failed request takes it to its catch branch, and so does, in the
\* overlay closure, a reply that is not OK (line 54); otherwise it asks
\* for the body and returns to the event loop (lines 55, 393).
UploadReply ==
    \E u \in BagToSet(uploads) :
        /\ u.stage \in {"ok", "rejected", "failed"}
        /\ IF u.stage = "failed" \/ (u.stage = "rejected" /\ u.build = "overlay")
           THEN /\ uploads' = Take(uploads, u)
                /\ UploadFailed
           ELSE /\ uploads' = Put(Take(uploads, u), [u EXCEPT !.stage = "json"])
                /\ UNCHANGED <<buttonVars, poll, timers>>
        /\ handled' = NoReply
        /\ UNCHANGED <<jobs, chosen, fetches, historyFetch, listVars,
                       currentJobId, lastJobId>>
        /\ UNCHANGED <<syncVars, serviceVars, pollCap>>

\* app.js:55-57, 393-395: a click handler resumes with the body of the
\* reply; the split closure reads job_id from whatever body the reply has
UploadJson ==
    \E u \in BagToSet(uploads) :
        /\ u.stage = "json"
        /\ uploads' = Take(uploads, u)
        /\ UploadAccepted(u.build, u.job)
        /\ handled' = NoReply
        /\ UNCHANGED <<jobs, chosen, fetches, historyFetch, listVars,
                       currentJobId, lastJobId>>
        /\ UNCHANGED <<syncVars, serviceVars, pollCap>>

\* list_history (spec sections 4.4 and 6): the resumable jobs.  A job in
\* error is never listed; this is the most a service may list, one that
\* leaves out the jobs still in a non-terminal state lists the completed
\* ones.
Listed == {j \in JobIds : jobs[j] \in {"queued", "transcribing", "completed"}}

\* app.js:144-145, 497-498: loadHistory() of closure b resumes when its
\* fetch settles: on a failed request in its catch branch (line 183, 536);
\* otherwise it asks for the body and returns to the event loop.  The body
\* is the list of the moment the service answered, with or without the jobs
\* that are not completed yet, or an error body, which has no items.
\* Nothing on the page changes.
HistoryReply ==
    \E b \in Builds :
        /\ historyFetch[b].stage = "sent"
        /\ \/ \E items \in {Listed, {j \in Listed : jobs[j] = "completed"}} :
                 historyFetch' = [historyFetch EXCEPT ![b] =
                     [stage |-> "json", items |-> items]]
           \/ historyFetch' = [historyFetch EXCEPT ![b] =
                  [stage |-> "json", items |-> {}]]
           \/ historyFetch' = [historyFetch EXCEPT ![b] = HistoryDone]
        /\ handled' = NoReply
        /\ UNCHANGED <<jobs, chosen, buttonVars, poll, timers, fetches,
                       uploads, listVars, currentJobId, lastJobId>>
        /\ UNCHANGED <<syncVars, serviceVars, pollCap>>

\* app.js:145-182, 498-535: loadHistory() of closure b resumes with the
\* body: a list that is not empty replaces the items by its own and shows
\* the bar; anything else hides the bar
HistoryJson ==
    \E b \in Builds :
        /\ historyFetch[b].stage = "json"
        /\ historyFetch' = [historyFetch EXCEPT ![b] = HistoryDone]
        /\ IF historyFetch[b].items # {}
           THEN /\ historyBar' = TRUE
                /\ history' = historyFetch[b].items
                /\ historyBy' = b
           ELSE /\ historyBar' = FALSE
                /\ UNCHANGED <<history, historyBy>>
        /\ handled' = NoReply
        /\ UNCHANGED <<jobs, chosen, buttonVars, poll, timers, fetches,
                       uploads, currentJobId, lastJobId>>
        /\ UNCHANGED <<syncVars, serviceVars, pollCap>>

\* app.js:172-177, 525-530: click on a history item, which has the onclick
\* of the closure that made it
HistoryClick ==
    \E j \in history :
        /\ historyBar
        /\ PollsLeft(historyBy)
        /\ uploadBtnDisabled' = TRUE
        /\ statusMsg' = "Loading"
        /\ StartPoll(historyBy, j)
        /\ handled' = NoReply
        /\ UNCHANGED <<jobs, chosen, netVars, listVars, currentJobId,
                       lastJobId>>
        /\ UNCHANGED <<syncVars, serviceVars, pollCap>>

\* one polling interval passes
Elapse ==
    /\ timers # {}
    /\ \A tm \in timers : tm.wait = 0
    /\ timers' = {[tm EXCEPT !.wait = PollIntervalMs] : tm \in timers}
    /\ handled' = NoReply
    /\ UNCHANGED <<jobs, chosen, buttonVars, poll, netVars, listVars,
                   currentJobId, lastJobId>>
    /\ UNCHANGED <<syncVars, serviceVars, pollCap>>

\* the body of a reply that has not come
NoBody == [ok |-> FALSE, status |-> "none", transcript |-> NoTranscript,
           audio |-> 0]

\* app.js:72-73, 410-411: the timer fires and its callback sends the request
Tick ==
    \E tm \in timers :
        /\ tm.wait = PollIntervalMs
        /\ BagCardinality(fetches) < MaxInFlight
        /\ timers' = (timers \ {tm}) \cup {[tm EXCEPT !.wait = 0]}
        /\ fetches' = Put(fetches, [build |-> tm.build, by |-> tm.id,
                                    job |-> tm.job, stage |-> "sent",
                                    d |-> NoBody])
        /\ handled' = NoReply
        /\ UNCHANGED <<jobs, chosen, buttonVars, poll, uploads, historyFetch,
                       listVars, currentJobId, lastJobId>>
        /\ UNCHANGED <<syncVars, serviceVars, pollCap>>

\* The service's status (spec section 4.5): the body of the OK reply to GET
\* /status/<job> carries the job's state at the moment the service
\* answers.  It has `transcript` only when the status is completed (spec
\* section 6), and then it is what the cache holds for the job's audio.
StatusOk(f) ==
    [ok |-> TRUE, status |-> jobs[f.job],
     transcript |-> IF jobs[f.job] = "completed" THEN JobTranscript(f.job)
                    ELSE NoTranscript,
     audio |-> audioOf[f.job]]

Known(j) == j \in JobIds /\ jobs[j] # "absent"

\* app.js:77-82, 415-421: the reply says completed.  The overlay's show()
\* does not open the reader in a document without #captionOverlay.
OnCompleted(f) ==
    /\ timers' = ClearInterval(timers, f.build, poll[f.build])
    /\ statusMsg' = "Ready"
    /\ uploadBtnDisabled' = FALSE
    /\ currentJobId' = [currentJobId EXCEPT ![f.build] = f.job]
    /\ lastJobId' = IF f.build = "split" THEN f.job ELSE lastJobId
    /\ ShowReader(f.build, f.d.transcript, f.d.audio)
    /\ handled' = [build |-> f.build, by |-> f.by, job |-> f.job,
                   status |-> "completed", showed |-> Shows(f.build)]

\* an error branch that goes on to open the reader
OnErrorOpensReader(f) ==
    /\ timers' = ClearInterval(timers, f.build, poll[f.build])
    /\ statusMsg' = "Error"
    /\ uploadBtnDisabled' = FALSE
    /\ ShowReader(f.build, JobTranscript(f.job), audioOf[f.job])
    /\ handled' = [build |-> f.build, by |-> f.by, job |-> f.job,
                   status |-> "error", showed |-> Shows(f.build)]
    /\ UNCHANGED <<currentJobId, lastJobId>>

\* app.js:83-88, 422-427: the reply says error
OnError(f) ==
    /\ timers' = ClearInterval(timers, f.build, poll[f.build])
    /\ statusMsg' = "Error"
    /\ uploadBtnDisabled' = FALSE
    /\ handled' = [build |-> f.build, by |-> f.by, job |-> f.job,
                   status |-> "error", showed |-> FALSE]
    /\ UNCHANGED <<currentJobId, lastJobId, historyBar>>
    /\ UNCHANGED syncVars

\* a callback that gives up polling when it gets no usable reply
OnOtherStops(f) ==
    /\ handled' = NoReply
    /\ timers' = IF f.stage = "json" THEN timers
                 ELSE ClearInterval(timers, f.build, poll[f.build])
    /\ UNCHANGED <<statusMsg, uploadBtnDisabled, currentJobId, lastJobId,
                   historyBar>>
    /\ UNCHANGED syncVars

\* app.js:74, 88, 412, 427: no usable reply, or a status that is neither:
\* the callback returns and the timer runs on
OnOther(f) ==
    /\ handled' = NoReply
    /\ UNCHANGED <<timers, statusMsg, uploadBtnDisabled, currentJobId,
                   lastJobId, historyBar>>
    /\ UNCHANGED syncVars

\* app.js:75-88, 413-427: the timer callback resumes with the body d of the
\* reply to its request f
Callback(f) ==
    /\ fetches' = Take(fetches, f)
    /\ IF f.d.status = "completed" THEN OnCompleted(f)
       ELSE IF f.d.status = "error" THEN OnError(f)
       ELSE OnOther(f)
    /\ UNCHANGED <<jobs, chosen, poll, uploads, historyFetch, history,
                   historyBy, pollCap, serviceVars>>

\* app.js:73-75, 411-413: the service answers the request f with an OK
\* reply; the callback resumes, finds res.ok, asks for the body and returns
\* to the event loop.  Nothing on the page changes.
StatusReplyTo(b) ==
    \E f \in BagToSet(fetches) :
        /\ f.build = b
        /\ f.stage = "sent"
        /\ Known(f.job)
        /\ fetches' = Put(Take(fetches, f),
                          [f EXCEPT !.stage = "json", !.d = StatusOk(f)])
        /\ handled' = NoReply
        /\ UNCHANGED <<jobs, chosen, buttonVars, poll, timers, uploads,
                       historyFetch, listVars, currentJobId, lastJobId>>
        /\ UNCHANGED <<syncVars, serviceVars, pollCap>>

StatusReply == \E b \in Builds : StatusReplyTo(b)

\* app.js:73-74, 411-412: the request f fails, or its reply is not OK
\* (NotFound for an unknown job, a server error): the callback returns
StatusFailedTo(b) ==
    \E f \in BagToSet(fetches) :
        /\ f.build = b
        /\ f.stage = "sent"
        /\ fetches' = Take(fetches, f)
        /\ OnOther(f)
        /\ UNCHANGED <<jobs, chosen, poll, uploads, historyFetch, history,
                       historyBy, pollCap, serviceVars>>

StatusFailed == \E b \in Builds : StatusFailedTo(b)

\* app.js:75-88, 413-427: the body of an OK reply is read
StatusJsonOf(b) ==
    \E f \in BagToSet(fetches) : f.build = b /\ f.stage = "json" /\ Callback(f)

StatusJson == \E b \in Builds : StatusJsonOf(b)

\* what a step of the service leaves alone on the page
PageUnchanged ==
    /\ handled' = NoReply
    /\ UNCHANGED <<chosen, buttonVars, poll, timers, netVars, listVars,
                   currentJobId, lastJobId, pollCap>>
    /\ UNCHANGED syncVars

\* jobs with the state of every job in js set to st
Moved(js, st) == [j \in JobIds |-> IF j \in js THEN st ELSE jobs[j]]

\* the jobs that the run in flight on audio a is working for
RunningOn(a) == {j \in JobIds : jobs[j] = "transcribing" /\ audioOf[j] = a}

\* a background run that starts although one is in flight for the audio
StartRunUnguarded ==
    \E j \in JobIds :
        /\ jobs[j] = "queued"
        /\ ~cache[audioOf[j]].present
        /\ jobs' = Moved({j}, "transcribing")
        /\ inflight' = [inflight EXCEPT ![audioOf[j]] = @ + 1]
        /\ runs' = [runs EXCEPT ![audioOf[j]] = @ + 1]
        /\ UNCHANGED <<audioOf, cachedAtSubmit, cache>>
        /\ PageUnchanged

\* a background run that starts without asking the cache
StartRunIgnoresCache ==
    \E j \in JobIds :
        /\ jobs[j] = "queued"
        /\ inflight[audioOf[j]] = 0
        /\ jobs' = Moved({j}, "transcribing")
        /\ inflight' = [inflight EXCEPT ![audioOf[j]] = @ + 1]
        /\ runs' = [runs EXCEPT ![audioOf[j]] = @ + 1]
        /\ UNCHANGED <<audioOf, cachedAtSubmit, cache>>
        /\ PageUnchanged

\* spec sections 4.4 and 5: queued -> transcribing when the background run
\* starts; a job whose audio is cached starts none, and a job whose audio
\* has a run in flight starts none either
StartRun ==
    \E j \in JobIds :
        /\ jobs[j] = "queued"
        /\ ~cache[audioOf[j]].present
        /\ inflight[audioOf[j]] = 0
        /\ jobs' = Moved({j}, "transcribing")
        /\ inflight' = [inflight EXCEPT ![audioOf[j]] = @ + 1]
        /\ runs' = [runs EXCEPT ![audioOf[j]] = @ + 1]
        /\ UNCHANGED <<audioOf, cachedAtSubmit, cache>>
        /\ PageUnchanged

\* spec section 5: a job submitted on audio that has a run in flight joins
\* that run, and ends as the run ends; a service that serializes leaves the
\* job queued behind the run instead
JoinRun ==
    \E j \in JobIds :
        /\ jobs[j] = "queued"
        /\ ~cache[audioOf[j]].present
        /\ inflight[audioOf[j]] > 0
        /\ jobs' = Moved({j}, "transcribing")
        /\ UNCHANGED serviceVars
        /\ PageUnchanged

\* spec section 4.4, fast path: queued -> completed on a cache hit
CompleteFromCache ==
    \E j \in JobIds :
        /\ jobs[j] = "queued"
        /\ cache[audioOf[j]].present
        /\ jobs' = Moved({j}, "completed")
        /\ UNCHANGED serviceVars
        /\ PageUnchanged

\* a run that marks its job completed and leaves the caching for later
FinishRunBeforeCaching ==
    \E a \in AudioIds :
        /\ inflight[a] > 0
        /\ jobs' = Moved(RunningOn(a), "completed")
        /\ inflight' = [inflight EXCEPT ![a] = @ - 1]
        /\ UNCHANGED <<audioOf, cachedAtSubmit, cache, runs>>
        /\ PageUnchanged

\* spec section 4.4: transcribing -> completed when the Worker returns a
\* Transcript and it is cached; the two happen as one transition
FinishRun ==
    \E a \in AudioIds :
        /\ inflight[a] > 0
        /\ cache' = [cache EXCEPT ![a] = AudioTranscript(a)]
        /\ jobs' = Moved(RunningOn(a), "completed")
        /\ inflight' = [inflight EXCEPT ![a] = @ - 1]
        /\ UNCHANGED <<audioOf, cachedAtSubmit, runs>>
        /\ PageUnchanged

\* a failed run whose job is put back in the queue
FailRunRetries ==
    \E a \in AudioIds :
        /\ inflight[a] > 0
        /\ jobs' = Moved(RunningOn(a), "queued")
        /\ inflight' = [inflight EXCEPT ![a] = @ - 1]
        /\ UNCHANGED <<audioOf, cachedAtSubmit, cache, runs>>
        /\ PageUnchanged

\* spec sections 4.4 and 7: transcribing -> error when the Worker fails;
\* nothing is written to the cache and nothing is retried
FailRun ==
    \E a \in AudioIds :
        /\ inflight[a] > 0
        /\ jobs' = Moved(RunningOn(a), "error")
        /\ inflight' = [inflight EXCEPT ![a] = @ - 1]
        /\ UNCHANGED <<audioOf, cachedAtSubmit, cache, runs>>
        /\ PageUnchanged

\* The service's job lifecycle (spec section 4.4).
Progress ==
    \/ StartRun
    \/ CompleteFromCache
    \/ FinishRun
    \/ FailRun

\* The service at page load with the jobs of earlier sessions among old,
\* each in any state; each shared store as those jobs' history left it, and
\* the cache may hold the Transcript of audio that a job no longer listed
\* brought.
InitServiceWith(nJobs, nAudio, old) ==
    /\ jobs \in {js \in [1..nJobs -> JobStates \cup {"absent"}] :
                   \A j \in 1..nJobs : js[j] # "absent" => j \in old}
    /\ audioOf \in {au \in [1..nJobs -> 0..nAudio] :
                      \A j \in 1..nJobs : (au[j] = 0) <=> (jobs[j] = "absent")}
    /\ cachedAtSubmit \in {cs \in SUBSET (1..nJobs) :
                             \A j \in cs : jobs[j] \in {"queued", "completed"}}
    /\ \E hit \in SUBSET (1..nAudio) :
          /\ \A j \in 1..nJobs :
                /\ jobs[j] = "completed" => audioOf[j] \in hit
                /\ jobs[j] = "transcribing" => audioOf[j] \notin hit
                /\ j \in cachedAtSubmit => audioOf[j] \in hit
          /\ cache = [a \in 1..nAudio |-> IF a \in hit THEN AudioTranscript(a)
                                           ELSE NoTranscript]
    /\ inflight = [a \in 1..nAudio |->
                      IF \E j \in 1..nJobs : jobs[j] = "transcribing" /\ audioOf[j] = a
                      THEN 1 ELSE 0]
    /\ runs = inflight

\* The service at page load: no job, or one job of an earlier session.
InitService(nJobs, nAudio) == InitServiceWith(nJobs, nAudio, {1})

\* The page after DOMContentLoaded in a browser that opens it for the first
\* time or after a session of the split closure, its history list apart:
\* the split closure has read lastJobId and, if there is one, called
\* setStatus and startPoll (app.js:543-547).
\* lastJobId is written by the completed branch only (app.js:420): the job
\* it names was completed then, and still is unless the service has lost
\* its record.
PageLoaded(cap) ==
    /\ InitSync
    /\ FreshStorage
    /\ chosen = {}
    /\ uploadBtnDisabled = TRUE
    /\ lastJobId \in {j \in JobIds : jobs[j] = "completed"} \cup {GoneJob, NoJob}
    /\ statusMsg = IF lastJobId # NoJob THEN "Restoring" ELSE ""
    /\ poll = [overlay |-> 0, split |-> IF lastJobId # NoJob THEN 1 ELSE 0]
    /\ timers = IF lastJobId # NoJob
                THEN {[build |-> "split", id |-> 1, job |-> lastJobId,
                       wait |-> 0]}
                ELSE {}
    /\ fetches = EmptyBag
    /\ uploads = EmptyBag
    /\ currentJobId = Both(NoJob)
    /\ handled = NoReply
    /\ pollCap = cap

\* each loadHistory() has sent its request (app.js:187, 540), which is
\* still to be answered
InitPage(cap) ==
    /\ PageLoaded(cap)
    /\ historyFetch = Both(HistorySent)
    /\ history = {}
    /\ historyBy = "overlay"
    /\ historyBar = FALSE

\* The same page a moment later, nothing else having happened: both history
\* requests have been answered with the list of the jobs the service has,
\* and the items on the page are those of the closure whose loadHistory
\* came last (app.js:145-182, 498-535).
InitPageListed(cap) ==
    /\ PageLoaded(cap)
    /\ historyFetch = Both(HistoryDone)
    /\ history \in {Listed, {j \in Listed : jobs[j] = "completed"}}
    /\ historyBy \in Builds
    /\ historyBar = (history # {})

InitPoll == InitService(MaxJobs, MaxAudio) /\ InitPage(MaxPolls)

\* the user chooses files and uploads them, the closures poll the jobs; the
\* history requests stay unanswered
NextPoll ==
    \/ ChooseFile
    \/ UploadClick
    \/ ServeUpload
    \/ UploadReply
    \/ UploadJson
    \/ Elapse
    \/ Tick
    \/ StatusReply
    \/ StatusFailed
    \/ StatusJson
    \/ Progress
    \/ JoinRun

SpecPoll == InitPoll /\ [][NextPoll]_vars

\* the same page with its history list loaded: the user uploads files or
\* opens a job from the list, in either order
NextClient == NextPoll \/ HistoryClick

SpecClient ==
    /\ InitService(MaxJobs, MaxAudio) /\ InitPageListed(MaxPolls)
    /\ [][NextClient]_vars

\* the history requests are answered and the user opens jobs from the
\* list; no file is chosen
NextHistory ==
    \/ HistoryReply
    \/ HistoryJson
    \/ HistoryClick
    \/ Elapse
    \/ Tick
    \/ StatusReply
    \/ StatusFailed
    \/ StatusJson
    \/ Progress

SpecHistory == InitPoll /\ [][NextHistory]_vars

\* Time passes and a set timer fires (setInterval); the fetch of every
\* request settles, with a reply or with a failure, and the body of an OK
\* reply is read.  Whether a reply is an OK one is up to the network and
\* the service.
PollFairness ==
    /\ WF_vars(Elapse)
    /\ WF_vars(Tick)
    /\ \A b \in Builds :
          /\ WF_vars(StatusReplyTo(b) \/ StatusFailedTo(b))
          /\ WF_vars(StatusJsonOf(b))

SpecHistoryFair == InitPoll /\ [][NextHistory]_vars /\ PollFairness


(***************************************************************************)
(* The reader in use: books are opened from the history list               *)
(***************************************************************************)
\* how many startPoll calls of one closure a run of the engine is followed for
EnginePolls == MaxPolls + 1

\* The page is loaded in a browser that stores no last job.  The service
\* has two books on short recordings: the sample segments, and one whose
\* only segment is blank.
Init ==
    /\ InitLibrary(<<2, 3>>,
                   <<NoTranscript, Transcript(SampleList),
                     Transcript(<<SampleList[3]>>)>>)
    /\ InitPage(EnginePolls)
    /\ lastJobId = NoJob

\* no poll is under way
Calm == timers = {} /\ fetches = EmptyBag

\* the user opens a book from the history list while the closure that made
\* the list has no poll of its own under way
OpenFromHistory ==
    /\ \A tm \in timers : tm.build # historyBy
    /\ \A f \in BagToSet(fetches) : f.build # historyBy
    /\ HistoryClick

OpenBooks ==
    \/ HistoryReply
    \/ HistoryJson
    \/ OpenFromHistory
    \/ Elapse
    \/ Tick
    \/ StatusReply
    \/ StatusJson

\* books are opened, and the user plays, seeks and toggles the captions
Next ==
    \/ OpenBooks
    \/ LoadedMetadata
    \/ AnimationFrame
    \/ Play
    \/ Seek
    \/ ArrowLeft
    \/ ArrowRight
    \/ LineClick
    \/ ToggleCaptions

Spec == Init /\ [][Next]_vars
(***************************************************************************)
(* Vocabulary of the properties                                            *)
(***************************************************************************)
\* the stored segment list of closure b
Stored(b) == IF b = "overlay" THEN segments ELSE lines

\* the instant t the current frame asks about, on the scale of Instant
Now == FrameTime(currentTime)

\* the active segment as the engine of closure b holds it
ActiveIndex(b) == IF b = "overlay" THEN activeIdx ELSE ActiveLineIdx

\* the segments closure b highlights on the page: the caption shown in the
\* overlay, the caption lines carrying class 'active'
Highlighted(b) ==
    IF b = "overlay"
    THEN IF overlayHidden \/ captionText = <<>> THEN {} ELSE {activeIdx}
    ELSE {i \in 0..(Len(lines) - 1) : "active" \in lineClass[i + 1]}

\* the frame of closure b ran the scan: the overlay closure skips it while
\* its captions are toggled off (app.js:192)
ScanRan(b) == synced[b] /\ (b = "overlay" => captionsVisible["overlay"])

Qualifying(segs, t) ==
    {i \in 0..(Len(segs) - 1) :
        Instant(segs[i + 1].start) <= t /\ t <= Instant(segs[i + 1].end)}

MinOf(S) == CHOOSE x \in S : \A y \in S : x <= y

\* the full reference scan: the first qualifying segment, -1 without one
RefIdx(segs, t) ==
    IF Qualifying(segs, t) = {} THEN -1 ELSE MinOf(Qualifying(segs, t))

\* time-ascending and non-overlapping (a shared boundary is no overlap)
TimeSorted(segs) ==
    /\ \A i \in 1..Len(segs) : segs[i].start <= segs[i].end
    /\ \A i \in 1..(Len(segs) - 1) : segs[i].end <= segs[i + 1].start

StartsAscending(segs) ==
    \A i \in 1..(Len(segs) - 1) : segs[i].start <= segs[i + 1].start

ExampleStored == BuildSegments(ExampleTranscript)

(***************************************************************************)
(* C1: on a time-ascending, non-overlapping segment list, at every clock   *)
(* value, a frame asks about t = currentTime + 0.15, the sum as the page   *)
(* computes it, and ends with exactly the segment a full scan selects      *)
(* active: the first i with start_i <= t <= end_i, or none; the early stop *)
(* hides no segment.                                                       *)
(***************************************************************************)
C1_FrameSelectsReferenceIndex ==
    \A b \in Builds :
        (ScanRan(b) /\ TimeSorted(Stored(b)))
            => ActiveIndex(b) = RefIdx(Stored(b), FrameTime(currentTime))

\* the early stop fired in a gap: t lies after segment 0 and before segment
\* 1, the sum having come out just under the start of segment 1
C1_Witness ==
    \E b \in Builds :
        /\ ScanRan(b)
        /\ TimeSorted(Stored(b))
        /\ Len(Stored(b)) = 3
        /\ Instant(Stored(b)[1].end) < Now
        /\ Now < Instant(Stored(b)[2].start)
        /\ currentTime + LeadBias = Stored(b)[2].start
        /\ ActiveIndex(b) = -1

(***************************************************************************)
(* C2: when segment i ends at the instant segment i+1 starts, a frame at   *)
(* that instant makes segment i+1 active; on (0,2),(2,4),(5,7) s the frame *)
(* at t=1 gives 0, at t=2 gives 1, at t=4.5 gives none, at t=6 gives 2.     *)
(***************************************************************************)
C2_BoundaryBelongsToNextSegment ==
    \A b \in Builds :
        (ScanRan(b) /\ TimeSorted(Stored(b))) =>
            /\ \A i \in 1..(Len(Stored(b)) - 1) :
                  (Instant(Stored(b)[i].end) = Now
                   /\ Instant(Stored(b)[i + 1].start) = Now
                   /\ Instant(Stored(b)[i].start) < Now
                   /\ Now < Instant(Stored(b)[i + 1].end))
                      => ActiveIndex(b) = i
            /\ Stored(b) = ExampleStored =>
                  /\ Now = Instant(20) => ActiveIndex(b) = 0
                  /\ Now = Instant(40) => ActiveIndex(b) = 1
                  /\ Now = Instant(90) => ActiveIndex(b) = -1
                  /\ Now = Instant(120) => ActiveIndex(b) = 2

(***************************************************************************)
(* C3: in every reachable state of the sync engine at most one segment is  *)
(* active: at most one caption line carries class 'active', and it is the  *)
(* line activeLine points at; the overlay's caption is the text of the one *)
(* segment activeIdx names, and empty when it names none.                   *)
(***************************************************************************)
C3_AtMostOneActive ==
    /\ \A b \in Builds : Cardinality(Highlighted(b)) <= 1
    /\ Len(lineClass) = Len(lines)
    /\ Highlighted("split") = (IF ActiveLineIdx = -1 THEN {} ELSE {ActiveLineIdx})
    /\ activeIdx \in -1..(Len(segments) - 1)
    /\ captionText = (IF activeIdx = -1 THEN <<>>
                      ELSE segments[activeIdx + 1].text)

\* segment 1 is active and its neighbour carries 'near'
C3_Witness ==
    /\ synced["split"]
    /\ activeLine = 1
    /\ "near" \in lineClass[1]
    /\ emitted["split"] = Update(0, 1)

(***************************************************************************)
(* C4: the result of a frame does not depend on the clock's history: after *)
(* any run of loads, playback, seeks forward and backward and toggles, the *)
(* highlight after a frame at clock value c is the one a freshly           *)
(* initialised engine with the same transcript shows after its first frame *)
(* at c.                                                                   *)
(***************************************************************************)
FreshIdx(b) ==
    IF Stored(b) = <<>> \/ (b = "overlay" /\ ~captionsVisible["overlay"])
    THEN -1
    ELSE ScanIdx(Stored(b), Now)

C4_NoStaleActiveState ==
    \A b \in Builds :
        synced[b] =>
            /\ Highlighted(b) = (IF FreshIdx(b) = -1 THEN {} ELSE {FreshIdx(b)})
            /\ ScanRan(b) => ActiveIndex(b) = FreshIdx(b)

\* the frame at t = 0.5 s took the highlight from segment 2 (5-7 s) and gave
\* it to segment 0: the clock had jumped backward
C4_Witness ==
    \E b \in Builds :
        /\ Stored(b) = ExampleStored
        /\ synced[b]
        /\ Now = Instant(10)
        /\ emitted[b] = Update(2, 0)
        /\ ActiveIndex(b) = 0

(***************************************************************************)
(* C5: a frame whose computed index j differs from the active index i      *)
(* makes one update: i loses the highlight and j gets it (j = -1: nothing  *)
(* is highlighted).  Across two segments that share a boundary, as from    *)
(* t=1.9 s to t=2.1 s on (0,2),(2,4), every frame leaves exactly one of     *)
(* the two highlighted, never both and never neither.                      *)
(***************************************************************************)
FrameStep == AnimationFrame

\* the frame of closure b gets as far as the scan
ScanRuns(b) ==
    Stored(b) # <<>> /\ (b = "overlay" => captionsVisible["overlay"])

C5_FrameUpdate ==
    \A b \in Builds :
        (FrameStep /\ ScanRuns(b) /\ ScanIdx(Stored(b), Now) # ActiveIndex(b)) =>
            LET i == ActiveIndex(b)
                j == ScanIdx(Stored(b), Now)
            IN /\ emitted'[b] = Update(i, j)
               /\ ActiveIndex(b)' = j
               /\ Highlighted(b)' = (IF j = -1 THEN {} ELSE {j})
               /\ b = "overlay" =>
                     captionText' = (IF j = -1 THEN <<>> ELSE segments[j + 1].text)

C5_OneOfTwoAdjacent ==
    \A b \in Builds :
        (ScanRan(b) /\ TimeSorted(Stored(b))) =>
            \A i \in 1..(Len(Stored(b)) - 1) :
                (Stored(b)[i].end = Stored(b)[i + 1].start
                 /\ Instant(Stored(b)[i].start) <= Now
                 /\ Now <= Instant(Stored(b)[i + 1].end))
                    => (Highlighted(b) = {i - 1} \/ Highlighted(b) = {i})

C5_OneExitOneEnter == [][C5_FrameUpdate]_vars /\ []C5_OneOfTwoAdjacent

\* the frame at t = 2.1 s took the highlight from segment 0 and gave it to
\* segment 1
C5_Witness ==
    \E b \in Builds :
        /\ Stored(b) = ExampleStored
        /\ synced[b]
        /\ Now = Instant(42)
        /\ emitted[b] = Update(0, 1)
        /\ Highlighted(b) = {1}

(***************************************************************************)
(* C6: a frame whose computed index equals the active index writes         *)
(* nothing: the active index, the caption text and every class list stay   *)
(* as they are, whether a segment is active or none is.                    *)
(***************************************************************************)
C6_SameIndexFrame ==
    /\ (FrameStep /\ ScanRuns("overlay") /\ ScanIdx(segments, Now) = activeIdx) =>
          /\ emitted'["overlay"] = NoUpdate
          /\ UNCHANGED <<activeIdx, captionText>>
    /\ (FrameStep /\ ScanRuns("split") /\ ScanIdx(lines, Now) = ActiveLineIdx) =>
          /\ emitted'["split"] = NoUpdate
          /\ ActiveLineIdx' = ActiveLineIdx
          /\ UNCHANGED lineClass

C6_NoDuplicateActivation == [][C6_SameIndexFrame]_vars

\* a frame found the active segment still active and wrote nothing
C6_Witness ==
    \E b \in Builds :
        /\ ScanRan(b)
        /\ Stored(b) # <<>>
        /\ ActiveIndex(b) >= 0
        /\ Highlighted(b) = {ActiveIndex(b)}
        /\ emitted[b] = NoUpdate

(***************************************************************************)
(* C7 as claimed: whenever more than one segment of the list satisfies     *)
(* start <= t <= end, the frame selects the qualifying segment with the    *)
(* lowest index.                                                           *)
(***************************************************************************)
C7_LowestQualifyingAnyList ==
    \A b \in Builds :
        (ScanRan(b) /\ Cardinality(Qualifying(Stored(b), Now)) > 1)
            => ActiveIndex(b) = MinOf(Qualifying(Stored(b), Now))

(***************************************************************************)
(* C7 amended: on a list whose start times never decrease, whenever more   *)
(* than one segment satisfies start <= t <= end, the frame selects the     *)
(* qualifying segment with the lowest index, a function of list and t.     *)
(***************************************************************************)
C7_LowestQualifyingWins ==
    \A b \in Builds :
        (ScanRan(b) /\ StartsAscending(Stored(b))
         /\ Cardinality(Qualifying(Stored(b), Now)) > 1)
            => ActiveIndex(b) = MinOf(Qualifying(Stored(b), Now))

\* two overlapping segments qualify, neither of them the first of the list
C7_Witness ==
    \E b \in Builds :
        /\ ScanRan(b)
        /\ StartsAscending(Stored(b))
        /\ ~TimeSorted(Stored(b))
        /\ Qualifying(Stored(b), Now) = {1, 2}
        /\ ActiveIndex(b) = 1

(***************************************************************************)
(* C8: with an empty stored list (no transcript, no segments, or every     *)
(* segment elided) the engine is idle: a frame at any clock value runs to  *)
(* its end and changes nothing, no segment is active and no caption is     *)
(* shown, also when the empty transcript replaced a non-empty one.         *)
(***************************************************************************)
C8_EmptyFrame ==
    /\ (FrameStep /\ segments = <<>>) =>
          /\ emitted'["overlay"] = NoUpdate
          /\ UNCHANGED <<segments, activeIdx, captionText>>
    /\ (FrameStep /\ lines = <<>>) =>
          /\ emitted'["split"] = NoUpdate
          /\ UNCHANGED <<lines, activeLine, lineClass>>

C8_EmptyState ==
    /\ \A b \in Builds :
          Stored(b) = <<>> =>
              /\ Highlighted(b) = {}
              /\ ActiveIndex(b) = -1
              /\ emitted[b] = NoUpdate
    /\ segments = <<>> => captionText = <<>>
    /\ ENABLED FrameStep

C8_EmptyTranscriptIdle == [][C8_EmptyFrame]_vars /\ []C8_EmptyState

\* the overlay closure, the only one to have opened a book, showed the
\* sample book and then the book whose only segment is blank, whose
\* recording has not loaded yet, and a frame has run on the empty list
C8_Witness ==
    /\ hasOverlay
    /\ lastJobId = NoJob
    /\ audioPathName["overlay"] = PathName(2)
    /\ src = 3
    /\ currentJobId["overlay"] = 2
    /\ segments = <<>>
    /\ synced["overlay"]

(***************************************************************************)
(* C9: the reader is opened only by the poll callback handling a reply     *)
(* whose status is completed, and then with that job's transcript built    *)
(* into the caption list.  A reply whose status is error, for a job that   *)
(* was uploaded, picked from history or restored as the last job, sets the *)
(* status line to Error and leaves the reader as it was; the reader is     *)
(* never open on a job whose state is error.                               *)
(***************************************************************************)
\* the reader comes up only in a step in which the callback called show
C9_ReaderAppears == (~readerOpen /\ readerOpen') => handled'.showed

\* a step that handles an error reply leaves the reader and its captions alone
C9_ErrorStep ==
    handled'.status = "error" =>
        UNCHANGED <<readerOpen, segments, lines, src, currentJobId, historyBar>>

C9_ShowOnCompleted ==
    handled.showed =>
        /\ handled.status = "completed"
        /\ readerOpen
        /\ currentJobId[handled.build] = handled.job
        /\ Stored(handled.build) = BuildSegments(JobTranscript(handled.job))

C9_ErrorShown ==
    handled.status = "error" => statusMsg = "Error" /\ ~handled.showed

C9_OpenOnCompletedJob ==
    /\ readerOpen =>
          \E b \in Builds :
              Known(currentJobId[b]) /\ jobs[currentJobId[b]] = "completed"
    /\ \A j \in JobIds, b \in Builds : jobs[j] = "error" => currentJobId[b] # j

C9_ReaderOnlyOnCompleted ==
    /\ [][C9_ReaderAppears /\ C9_ErrorStep]_vars
    /\ [](C9_ShowOnCompleted /\ C9_ErrorShown /\ C9_OpenOnCompletedJob)

\* the overlay closure, which restores no job, polled job 1, a job of an
\* earlier session that uploads of this page never get the id of: it was
\* picked from the history list, where it stood while it was not in error
\* yet.  The callback got the error reply: the status line says Error, the
\* reader is closed.
C9_Witness ==
    /\ handled.status = "error"
    /\ handled.build = "overlay"
    /\ handled.job = 1
    /\ handled.job \in history
    /\ jobs[handled.job] = "error"
    /\ currentJobId = Both(NoJob)
    /\ statusMsg = "Error"
    /\ ~readerOpen

(***************************************************************************)
(* C10: after startPoll(id) a closure requests the status of job id every  *)
(* polling interval (2000 ms) for as long as the replies say queued or     *)
(* transcribing: a request is sent only by the timer that startPoll set,   *)
(* one interval after it was set or last fired; a reply that says queued   *)
(* or transcribing, or no usable reply, leaves the timer set; the timer of *)
(* a poll is cancelled only by a reply that says its job is completed or   *)
(* in error, or by a new startPoll of the closure.  Once a                 *)
(* reply says completed or error the timer of its poll is not set and is   *)
(* never set again, so that poll sends no further request.  While the      *)
(* timer is set requests keep coming, and if the job of a set timer is in  *)
(* a terminal state and the closure's requests keep being answered, the    *)
(* timer is eventually cancelled.                                          *)
(***************************************************************************)
PollIds == 1..(MaxPolls + 1)

Live(b, g) == \E tm \in timers : tm.build = b /\ tm.id = g

\* the status request of poll g of closure b for job j, as it is sent
Request(b, g, j) ==
    [build |-> b, by |-> g, job |-> j, stage |-> "sent", d |-> NoBody]

\* this step sent that request
Requests(b, g, j) ==
    CopiesIn(Request(b, g, j), fetches') > CopiesIn(Request(b, g, j), fetches)

C10_RequestStep ==
    \A b \in Builds, g \in PollIds, j \in 0..GoneJob :
        Requests(b, g, j) =>
            /\ g = poll[b]
            /\ [build |-> b, id |-> g, job |-> j, wait |-> PollIntervalMs]
                  \in timers
            /\ [build |-> b, id |-> g, job |-> j, wait |-> 0] \in timers'

\* this step ended a poll callback: one request fewer awaits its reply or
\* the body of its reply
Resumes == BagCardinality(fetches') < BagCardinality(fetches)

C10_PendingStep ==
    (Resumes /\ handled'.status \notin Terminal) => UNCHANGED <<timers, poll>>

\* a timer that this step cancels is superseded by a startPoll of its
\* closure, or the closure has been told that the timer's job is completed
\* or in error
C10_CancelStep ==
    \A tm \in timers :
        (\A um \in timers' : ~(um.build = tm.build /\ um.id = tm.id)) =>
            \/ poll'[tm.build] # poll[tm.build]
            \/ /\ handled'.status \in Terminal
               /\ handled'.build = tm.build
               /\ handled'.job = tm.job

\* after a completed or error reply the timer of the poll that asked is
\* not set
C10_TerminalStep ==
    handled'.status \in Terminal =>
        \A tm \in timers' : ~(tm.build = handled'.build /\ tm.id = handled'.by)

\* a timer that is set was set before this step or is a new one: a cancelled
\* timer is never set again
C10_NoRevival ==
    /\ \A b \in Builds : poll'[b] >= poll[b]
    /\ \A tm \in timers' : Live(tm.build, tm.id) \/ tm.id > poll[tm.build]

C10_JobDone(b, g) ==
    \E tm \in timers :
        tm.build = b /\ tm.id = g /\ Known(tm.job) /\ jobs[tm.job] \in Terminal

C10_PollsUntilTerminal ==
    /\ [][/\ C10_RequestStep
          /\ C10_PendingStep
          /\ C10_CancelStep
          /\ C10_TerminalStep
          /\ C10_NoRevival]_vars
    /\ \A b \in Builds, g \in PollIds :
          Live(b, g) ~> (~Live(b, g)
                         \/ \E f \in BagToSet(fetches) : f.build = b /\ f.by = g)
    /\ \A b \in Builds, g \in PollIds :
          ([]<><<StatusReplyTo(b)>>_vars) => (C10_JobDone(b, g) ~> ~Live(b, g))

(***************************************************************************)
(* C11: when the reply to POST /upload is a network failure or is not OK,  *)
(* the click handler sets the status line to "Upload failed", enables the  *)
(* upload button and calls no startPoll; every poll that an upload starts  *)
(* is for the job_id of an accepted upload.                                *)
(***************************************************************************)
\* this step resumed a click handler with the reply u
UploadResumes(u) == CopiesIn(u, uploads) > CopiesIn(u, uploads')

C11_FailedUploadStep ==
    \A u \in BagToSet(uploads) :
        (u.stage \in {"rejected", "failed"} /\ UploadResumes(u)) =>
            /\ statusMsg' = "Upload failed"
            /\ ~uploadBtnDisabled'
            /\ UNCHANGED <<poll, timers>>
            /\ CopiesIn([u EXCEPT !.stage = "json"], uploads')
                  = CopiesIn([u EXCEPT !.stage = "json"], uploads)

\* no timer polls for the job id `undefined`
C11_PollsHaveJobId == \A tm \in timers : tm.job # NoJob

C11_FailedUploadStartsNoPoll ==
    [][C11_FailedUploadStep]_vars /\ []C11_PollsHaveJobId

(***************************************************************************)
(* C12: a POST /upload is sent only by a click made while both a PDF and   *)
(* an audio file are selected; in a state where one of them is missing, a  *)
(* click on the upload button changes nothing.                             *)
(***************************************************************************)
C12_SendStep ==
    BagCardinality(uploads') > BagCardinality(uploads) =>
        chosen = BothFiles /\ ~uploadBtnDisabled

C12_ClickIsIdle == chosen # BothFiles => ~ENABLED <<UploadClick>>_vars

C12_UploadNeedsBothFiles == [][C12_SendStep]_vars /\ []C12_ClickIsIdle

\* the button is enabled (a failed upload enabled it) while the PDF
\* selection has been cleared, and the bound leaves room for an upload
C12_Witness ==
    /\ ~uploadBtnDisabled
    /\ "pdf" \notin chosen
    /\ statusMsg = "Upload failed"
    /\ \A b \in Builds : PollsLeft(b)



(***************************************************************************)
(* buildcaptions on transcripts of every shape                             *)
(***************************************************************************)
\* spec.md section 8: words the 0.0-0.2, cat 0.2-0.5; the segment's own
\* bounds differ from its words' so that the source of a bound shows
TheCatWords ==
    [text |-> <<>>, start |-> 1, end |-> 11,
     words |-> <<[word |-> <<"t", "h", "e">>, start |-> 0, end |-> 4],
                 [word |-> <<"c", "a", "t">>, start |-> 4, end |-> 10]>>]

\* spec.md section 8: {text: "the cat", start: 0.0, end: 0.6}, no words
TheCatPlain == PlainSeg(<<"t", "h", "e", " ", "c", "a", "t">>, 0, 12)

TheCatBuilt(s, e) ==
    [text |-> <<"t", "h", "e", " ", "c", "a", "t">>, start |-> s, end |-> e]

\* the sample segments and: the two examples, a word list that starts with
\* a blank token, one of blank tokens only beside a segment text, a segment
\* without text and without words
BuildSamples ==
    SampleSegs \cup
    { TheCatWords, TheCatPlain,
      [text |-> <<"x">>, start |-> 0, end |-> 0,
       words |-> <<[word |-> <<" ">>, start |-> LeadBias, end |-> LeadBias + 1],
                   [word |-> <<"a">>, start |-> LeadBias + 1,
                    end |-> LeadBias + MaxSpan]>>],
      [text |-> <<"x">>, start |-> LeadBias, end |-> LeadBias + 1,
       words |-> <<[word |-> <<" ">>, start |-> LeadBias, end |-> LeadBias + 1]>>],
      PlainSeg(<<>>, LeadBias, LeadBias + 1) }

BuildInputs == {Transcript(q) : q \in SeqsUpTo(BuildSamples, MaxLoadSegs)}
               \cup {NoTranscript}

\* The page is loaded in a browser that stores no last job; the service
\* has one book, whose transcript is any of BuildInputs.
InitBuild ==
    /\ \E data \in BuildInputs : InitLibrary(<<2>>, <<NoTranscript, data>>)
    /\ InitPage(MaxPolls)
    /\ lastJobId = NoJob

\* each closure opens the book: its callback's show(...) runs buildcaptions
NextBuild == OpenBooks

SpecBuild == InitBuild /\ [][NextBuild]_vars

\* data.segments of the transcript closure b built last, [] when it has none
LoadedRaw(b) == IF loaded[b].present THEN loaded[b].segments ELSE <<>>

Blank(s) == \A i \in 1..Len(s) : IsSpace(s[i])

\* t is s without its leading and trailing white space
IsTrimOf(t, s) ==
    /\ t = <<>> \/ (~IsSpace(t[1]) /\ ~IsSpace(t[Len(t)]))
    /\ \E i \in 0..(Len(s) - Len(t)) :
          /\ t = SubSeq(s, i + 1, i + Len(t))
          /\ \A k \in (1..i) \cup ((i + Len(t) + 1)..Len(s)) : IsSpace(s[k])

\* the text rebuilt from a raw segment is empty or only white space: every word
\* token is, or without words the segment text is
ReconstructedBlank(seg) ==
    IF seg.words # <<>> THEN \A i \in 1..Len(seg.words) : Blank(seg.words[i].word)
    ELSE Blank(seg.text)

Survives(seg) == ~ReconstructedBlank(seg)

\* the raw segments that have text, in input order
Survivors(raw) == SelectSeq(raw, Survives)

\* position of token i in the tokens joined by one space each
RECURSIVE Offset(_, _)
Offset(toks, i) ==
    IF i = 1 THEN 1 ELSE Offset(toks, i - 1) + Len(toks[i - 1]) + 1

\* txt is the tokens in order with exactly one space between neighbours
SingleSpaced(txt, toks) ==
    /\ Len(txt) = Offset(toks, Len(toks) + 1) - 2
    /\ \A i \in 1..Len(toks) :
          SubSeq(txt, Offset(toks, i), Offset(toks, i) + Len(toks[i]) - 1) = toks[i]
    /\ \A i \in 1..(Len(toks) - 1) : txt[Offset(toks, i + 1) - 1] = " "

\* the word tokens of seg, each trimmed
TrimmedTokens(seg) == [i \in 1..Len(seg.words) |-> Trim(seg.words[i].word)]

\* txt is the text of the words of seg: each token trimmed, the tokens
\* joined by single spaces, and the joined text trimmed as a whole
TextOfWords(txt, seg) ==
    /\ \A i \in 1..Len(seg.words) :
          IsTrimOf(TrimmedTokens(seg)[i], seg.words[i].word)
    /\ SingleSpaced(JoinWords(seg.words), TrimmedTokens(seg))
    /\ IsTrimOf(txt, JoinWords(seg.words))

\* out is seg normalised
Normalized(out, seg) ==
    IF seg.words # <<>>
    THEN /\ out.start = seg.words[1].start
         /\ out.end = seg.words[Len(seg.words)].end
         /\ TextOfWords(out.text, seg)
    ELSE /\ out.start = seg.start
         /\ out.end = seg.end
         /\ IsTrimOf(out.text, seg.text)

(***************************************************************************)
(* C13 as claimed  Normalization in buildcaptions: the stored segment of a *)
(* raw segment with words starts at the start of its first word, ends at   *)
(* the end of its last word and its text is exactly the trimmed word       *)
(* tokens joined with single spaces; the stored segment of a raw segment   *)
(* without words keeps the segment's own start and end and its trimmed     *)
(* text.  The words " " and "a" refute it: the tokens joined are " a", the *)
(* stored text is "a".                                                     *)
(***************************************************************************)
C13_TokensJoinedVerbatim ==
    \A b \in Builds :
        /\ Len(Stored(b)) = Len(Survivors(LoadedRaw(b)))
        /\ \A k \in 1..Len(Stored(b)) :
              /\ Normalized(Stored(b)[k], Survivors(LoadedRaw(b))[k])
              /\ Survivors(LoadedRaw(b))[k].words # <<>> =>
                    SingleSpaced(Stored(b)[k].text,
                                 TrimmedTokens(Survivors(LoadedRaw(b))[k]))

(***************************************************************************)
(* C13  Normalization in buildcaptions: the stored segment of a raw        *)
(* segment with words starts at the start of its first word, ends at the   *)
(* end of its last word and reads the trimmed word tokens joined by single *)
(* spaces, the joined text trimmed once more as a whole (words the 0-4,    *)
(* cat 4-10 ticks give 0, 10, "the cat"; words " ", "a" give "a"); the     *)
(* stored segment of a raw segment without words keeps the segment's own   *)
(* start and end and its trimmed text.                                     *)
(***************************************************************************)
C13_Normalization ==
    \A b \in Builds :
        /\ Len(Stored(b)) = Len(Survivors(LoadedRaw(b)))
        /\ \A k \in 1..Len(Stored(b)) :
              /\ Normalized(Stored(b)[k], Survivors(LoadedRaw(b))[k])
              /\ Survivors(LoadedRaw(b))[k] = TheCatWords
                    => Stored(b)[k] = TheCatBuilt(0, 10)
              /\ Survivors(LoadedRaw(b))[k] = TheCatPlain
                    => Stored(b)[k] = TheCatBuilt(0, 12)

\* a closure shows a segment whose word list starts with a blank token,
\* stored with the text of its second word and the bounds of both, followed
\* by a plain segment that a tab leads
C13_Witness ==
    \E b \in Builds :
        /\ readerOpen
        /\ Len(LoadedRaw(b)) = 2
        /\ Len(LoadedRaw(b)[1].words) = 2
        /\ Blank(LoadedRaw(b)[1].words[1].word)
        /\ LoadedRaw(b)[2] = SampleList[4]
        /\ Len(Stored(b)) = 2
        /\ Stored(b)[1] = [text |-> <<"a">>, start |-> LeadBias,
                           end |-> LeadBias + MaxSpan]
        /\ Stored(b)[2].text = <<"b">>

\* what buildcaptions stores for one raw segment alone
Alone(seg) == BuildSegments(Transcript(<<seg>>))

RECURSIVE EachAlone(_)
EachAlone(raw) ==
    IF raw = <<>> THEN <<>> ELSE Alone(Head(raw)) \o EachAlone(Tail(raw))

(***************************************************************************)
(* C14  Empty-segment elision: after buildcaptions every stored segment    *)
(* has non-empty trimmed text; a raw segment whose rebuilt text is empty   *)
(* or only white space is not stored; the others are stored in input       *)
(* order.                                                                  *)
(***************************************************************************)
C14_EmptySegmentElision ==
    \A b \in Builds :
        /\ \A k \in 1..Len(Stored(b)) :
              /\ Stored(b)[k].text # <<>>
              /\ IsTrimOf(Stored(b)[k].text, Stored(b)[k].text)
        /\ \A i \in 1..Len(LoadedRaw(b)) :
              Len(Alone(LoadedRaw(b)[i])) =
                  IF ReconstructedBlank(LoadedRaw(b)[i]) THEN 0 ELSE 1
        /\ Stored(b) = EachAlone(LoadedRaw(b))

\* a transcript of full length lost exactly one segment, one of a space
\* and a no-break space
C14_Witness ==
    \E b \in Builds :
        /\ readerOpen
        /\ Len(LoadedRaw(b)) = MaxLoadSegs
        /\ \E i \in 1..Len(LoadedRaw(b)) :
              /\ ReconstructedBlank(LoadedRaw(b)[i])
              /\ LoadedRaw(b)[i].text = <<" ", "U+00A0">>
        /\ Len(Stored(b)) = MaxLoadSegs - 1

(***************************************************************************)
(* The service under submissions from any number of clients                *)
(***************************************************************************)
\* jobs and audio contents of the service taken alone
ServiceJobs == MaxJobs + 1

ServiceAudio == MaxAudio + 1

\* POST /upload from any client: the page of this model is not involved
OtherSubmit ==
    \E j \in JobIds, a \in AudioIds :
        /\ Submit(j, a)
        /\ PageUnchanged

InitServiceAlone ==
    /\ InitSync
    /\ FreshStorage
    /\ InitPageIdle
    /\ InitServiceEmpty(ServiceJobs, ServiceAudio)

NextService ==
    \/ OtherSubmit
    \/ Progress
    \/ JoinRun

SpecService == InitServiceAlone /\ [][NextService]_vars

(***************************************************************************)
(* C15  A job's state changes only along queued -> transcribing,           *)
(* transcribing -> completed, transcribing -> error and queued ->          *)
(* completed; completed and error are terminal, and no retry moves a job   *)
(* in error back to queued or transcribing.                                *)
(***************************************************************************)
C15_Allowed ==
    {<<"queued", "transcribing">>, <<"transcribing", "completed">>,
     <<"transcribing", "error">>, <<"queued", "completed">>}

C15_JobStep ==
    \A j \in JobIds :
        /\ jobs[j] # "absent" /\ jobs'[j] # jobs[j]
              => <<jobs[j], jobs'[j]>> \in C15_Allowed
        /\ jobs[j] \in Terminal => jobs'[j] = jobs[j]

C15_JobLifecycle == [][C15_JobStep]_vars

\* every transition has been taken: a failed run, a finished run, a job
\* completed from the cache
C15_Witness ==
    \E i, j, k \in JobIds :
        /\ jobs[i] = "error"
        /\ jobs[j] = "completed" /\ j \notin cachedAtSubmit
        /\ jobs[k] = "completed" /\ k \in cachedAtSubmit


\* A queued job is taken up and a run in flight ends: the background
\* execution unit of spec section 5 runs every job it is given, and a run
\* once begun runs to completion or failure.
ServiceFairness ==
    /\ WF_vars(StartRun)
    /\ WF_vars(CompleteFromCache)
    /\ WF_vars(FinishRun \/ FailRun)

SpecServiceFair == InitServiceAlone /\ [][NextService]_vars /\ ServiceFairness

\* the jobs submitted with audio a, and those of them whose run failed
JobsOn(a) == {j \in JobIds : audioOf[j] = a}

FailedOn(a) == {j \in JobsOn(a) : jobs[j] = "error"}

\* the transcript a status read of job j returns now
TranscriptRead(j) == StatusOk([job |-> j]).transcript

C16_OneRunInFlight == \A a \in AudioIds : inflight[a] <= 1

C16_SameTranscript ==
    \A a \in AudioIds : \A j, k \in JobsOn(a) :
        jobs[j] = "completed" /\ jobs[k] = "completed"
            => TranscriptRead(j).present /\ TranscriptRead(j) = TranscriptRead(k)

\* The claim as it is written: audio submitted twice is transcribed once,
\* whatever becomes of the runs.
C16_TwiceIsOneRun ==
    /\ C16_OneRunInFlight
    /\ C16_SameTranscript
    /\ \A a \in AudioIds : Cardinality(JobsOn(a)) = 2 => runs[a] <= 1

(***************************************************************************)
(* C16  At most one transcription run is in flight per audio identity at   *)
(* any time, and audio submitted twice has at most one run that succeeds:  *)
(* a run starts only on audio that has no run in flight and no cached      *)
(* Transcript, and a run beyond the first only after a run on that audio   *)
(* has failed and left its job in error.  Every submitted job reaches      *)
(* completed or error, and the jobs of one audio that reach completed      *)
(* return the identical Transcript; when no run fails there is exactly     *)
(* one run and both jobs reach completed.  This holds whether the second   *)
(* job joins the run in flight or waits behind it.                         *)
(***************************************************************************)
C16_RunsOnceUnlessFailed ==
    /\ C16_OneRunInFlight
    /\ C16_SameTranscript
    /\ \A a \in AudioIds :
          /\ runs[a] <= 1 + Cardinality(FailedOn(a))
          /\ FailedOn(a) = {} /\ (\E j \in JobsOn(a) : jobs[j] = "completed")
                => runs[a] = 1

C16_RunStep ==
    \A a \in AudioIds :
        runs'[a] # runs[a] =>
            /\ runs'[a] = runs[a] + 1
            /\ inflight[a] = 0
            /\ ~cache[a].present
            /\ \A j \in JobsOn(a) : jobs[j] # "completed"
            /\ runs[a] > 0 => FailedOn(a) # {}

C16_Settled ==
    \A j \in 1..ServiceJobs : jobs[j] = "queued" ~> jobs[j] \in Terminal

C16_DedupUnlessFailed ==
    /\ []C16_RunsOnceUnlessFailed
    /\ [][C16_RunStep]_vars
    /\ C16_Settled

\* two jobs on the same audio, both completed, after one run
C16_Witness ==
    \E a \in AudioIds :
        /\ Cardinality(JobsOn(a)) = 2
        /\ \A j \in JobsOn(a) : jobs[j] = "completed"
        /\ runs[a] = 1


(***************************************************************************)
(* C17  A job whose audio had a cached Transcript when it was submitted    *)
(* goes queued -> completed: no status read ever reports it transcribing   *)
(* (or in error), no transcription run starts on audio that is cached, and *)
(* the job reaches completed.                                              *)
(***************************************************************************)
C17_ReadsQueuedOrCompleted ==
    \A j \in cachedAtSubmit :
        StatusOk([job |-> j]).status \in {"queued", "completed"}

C17_NoRunStep ==
    \A a \in AudioIds : cache[a].present => runs'[a] = runs[a]

C17_Completes ==
    \A j \in 1..ServiceJobs : j \in cachedAtSubmit ~> jobs[j] = "completed"

C17_CacheReuse ==
    /\ []C17_ReadsQueuedOrCompleted
    /\ [][C17_NoRunStep]_vars
    /\ C17_Completes

\* a job submitted on cached audio is completed, and the one run on that
\* audio was the one that filled the cache
C17_Witness ==
    \E j \in cachedAtSubmit :
        /\ jobs[j] = "completed"
        /\ runs[audioOf[j]] = 1
        /\ \E k \in JobsOn(audioOf[j]) : k \notin cachedAtSubmit


(***************************************************************************)
(* C18  A status read never sees a partly updated job record: a reply that *)
(* reports completed carries the job's transcript, so the show and         *)
(* buildcaptions of the poll callback on a completed reply receive the     *)
(* transcript of that job's audio, and every later read for the job id     *)
(* returns the same transcript.                                            *)
(***************************************************************************)
C18_CompletedCarriesTranscript ==
    \A j \in JobIds :
        Known(j) /\ StatusOk([job |-> j]).status = "completed"
            => /\ TranscriptRead(j).present
               /\ TranscriptRead(j) = AudioTranscript(audioOf[j])

C18_ShowGetsTranscript ==
    handled.showed =>
        /\ loaded[handled.build].present
        /\ loaded[handled.build] = AudioTranscript(audioOf[handled.job])
        /\ Stored(handled.build) =
              BuildSegments(AudioTranscript(audioOf[handled.job]))

C18_StableStep ==
    \A j \in JobIds :
        jobs[j] = "completed" =>
            jobs'[j] = "completed" /\ TranscriptRead(j)' = TranscriptRead(j)

C18_AtomicCompletedRead ==
    /\ [](C18_CompletedCarriesTranscript /\ C18_ShowGetsTranscript)
    /\ [][C18_StableStep]_vars

\* the page uploaded a job, its run finished while the page was polling, and
\* a callback has just shown the completed reply's transcript
C18_Witness ==
    /\ handled.showed
    /\ poll[handled.build] = handled.by
    /\ runs[audioOf[handled.job]] = 1
    /\ handled.job \notin cachedAtSubmit
    /\ loaded[handled.build] = TranscriptRead(handled.job)
    /\ Len(Stored(handled.build)) = Len(loaded[handled.build].segments)
    /\ statusMsg = "Ready"


\* the page is as the completed branch of the callback of poll g of
\* closure b left it for job j: g is the last poll b started and its timer
\* is cleared, the status line says Ready, the reader is open, b holds j
\* and the transcript of j
Shown(b, g, j) ==
    /\ g = poll[b]
    /\ ~Live(b, g)
    /\ statusMsg = "Ready"
    /\ readerOpen
    /\ currentJobId[b] = j
    /\ loaded[b] = TranscriptRead(j)

(***************************************************************************)
(* C20  For one startPoll(id) the reader is opened at most once: with      *)
(* several status requests in flight when the job completes, show runs a   *)
(* single time.  No callback of a poll calls show when the page is as a    *)
(* completed reply of that same poll left it.                              *)
(***************************************************************************)
C20_ShowStep ==
    handled'.showed => ~Shown(handled'.build, handled'.by, handled'.job)

C20_ReaderOpenedOnce == [][C20_ShowStep]_vars


(***************************************************************************)
(* A page that calls startPoll a second time                               *)
(***************************************************************************)
\* one more startPoll of each closure than SpecHistory follows, and every
\* job is one of an earlier session, those after the first completed: a job
\* restored or picked from the history, and another click on the list
RacePolls == MaxPolls + 1

InitRace ==
    /\ InitServiceWith(MaxJobs, MaxAudio, 1..MaxJobs)
    /\ \A j \in 2..MaxJobs : jobs[j] \in {"absent", "completed"}
    /\ InitPage(RacePolls)

SpecRace == InitRace /\ [][NextHistory]_vars

SpecRaceFair == InitRace /\ [][NextHistory]_vars /\ PollFairness

(***************************************************************************)
(* C19  When startPoll(B) supersedes startPoll(A) while a status request   *)
(* of A is in flight, the late reply for A neither opens the reader for A  *)
(* nor cancels the polling of B: a completed or error reply to a request   *)
(* of a poll that is no longer the last one started leaves the reader, the *)
(* current job and the timers as they are.                                 *)
(***************************************************************************)
C19_StaleReplyStep ==
    (handled'.status \in Terminal /\ handled'.by # poll[handled'.build])
        => /\ ~handled'.showed
           /\ UNCHANGED <<timers, readerOpen, currentJobId, loaded>>

C19_SupersededPollIsInert == [][C19_StaleReplyStep]_vars


(***************************************************************************)
(* C21  From the click that starts an upload until the upload fails or the *)
(* job's poll sees completed or error, the upload button is disabled, so   *)
(* no second upload starts while one is in progress: while the upload      *)
(* request awaits its reply the button is disabled, and no click sends a   *)
(* request while another upload request is awaiting its reply.             *)
(***************************************************************************)
C21_DisabledWhileUploading ==
    BagCardinality(uploads) > 0 => uploadBtnDisabled

C21_OneUploadStep ==
    BagCardinality(uploads') > BagCardinality(uploads) => uploads = EmptyBag

C21_ButtonStaysDisabled ==
    /\ []C21_DisabledWhileUploading
    /\ [][C21_OneUploadStep]_vars


\* the callback of request f resumes in this step: with the reply, or
\* with the body of the reply
ResumesFor(f) == CopiesIn(f, fetches') < CopiesIn(f, fetches)

\* what the page shows and holds, the timers aside
PageFace ==
    <<statusMsg, uploadBtnDisabled, currentJobId, lastJobId, historyBar,
      readerOpen, loaded, segments, lines, currentTime, duration>>

(***************************************************************************)
(* C22  A status poll that fails (network error, a reply that is not OK,   *)
(* NotFound for an unknown job id) changes no client state: status line,   *)
(* upload button, current job and reader stay as they are and the timer    *)
(* stays set.  A request for an id the service does not know is never      *)
(* handled as completed or error, and every callback that does not handle  *)
(* a completed or error reply leaves the page and the timers unchanged.    *)
(***************************************************************************)
C22_FailedPollStep ==
    \A f \in BagToSet(fetches) :
        ResumesFor(f) =>
            /\ ~Known(f.job) => handled' = NoReply
            /\ handled' = NoReply => UNCHANGED <<PageFace, timers, poll>>

C22_FailedPollChangesNothing == [][C22_FailedPollStep]_vars

\* the split closure restored an id the service does not know; its timer
\* is set and its requests for that id await the reply, which can only fail
C22_Witness ==
    /\ lastJobId = GoneJob
    /\ statusMsg = "Restoring"
    /\ timers = {[build |-> "split", id |-> 1, job |-> GoneJob,
                  wait |-> PollIntervalMs]}
    /\ CopiesIn(Request("split", 1, GoneJob), fetches) = MaxInFlight
    /\ ENABLED <<StatusFailed>>_vars
    /\ ~ENABLED <<StatusReply>>_vars

(***************************************************************************)
(* The player: audio loads, seeks, saved positions, the wall clock         *)
(***************************************************************************)
\* what the two timeupdate listeners read and write: each closure's
\* audioPathName, the positions in localStorage, the overlay's
\* saveThrottle, and when the page last wrote a position
Saves ==
    [key |-> audioPathName, saved |-> saved, throttle |-> saveThrottle,
     last |-> lastWrite, gap |-> lastGap]

\* app.js:218-221, 592-596 on p: with a src and a position above 0 the
\* listener of closure b names its key from the player's src if it has
\* none, and stores the position under it
SavePosition(p, b) ==
    IF src # 0 /\ currentTime > 0
    THEN LET key == IF p.key[b] = 0 THEN PathName(src) ELSE p.key[b]
         IN [p EXCEPT !.key[b] = key,
                      !.saved = Store(p.saved, key, currentTime),
                      !.gap = IF p.last = Epoch THEN p.gap ELSE now - p.last,
                      !.last = now]
    ELSE p

\* app.js:214-222 on p: the overlay's listener returns within ThrottleMs of
\* the last event it let through
TimeUpdateOverlay(p) ==
    IF now - p.throttle < ThrottleMs
    THEN p
    ELSE SavePosition([p EXCEPT !.throttle = now], "overlay")

\* app.js:591-597 on p: the split's listener has no such test
TimeUpdateSplit(p) == SavePosition(p, "split")

\* the player's timeupdate event: the overlay's listener, then the split's
TimeUpdate ==
    LET q == TimeUpdateSplit(TimeUpdateOverlay(Saves))
    IN /\ audioPathName' = q.key
       /\ saved' = q.saved
       /\ saveThrottle' = q.throttle
       /\ lastWrite' = q.last
       /\ lastGap' = q.gap
       /\ UNCHANGED <<hasOverlay, engineVars, playVars, panelVars, now,
                      scheduled>>
       /\ NoPollStep

\* the wall clock advances
Wait ==
    /\ now + ClockStepMs <= MaxWaits * ClockStepMs
    /\ now' = now + ClockStepMs
    /\ UNCHANGED <<hasOverlay, engineVars, playVars, panelVars, saveVars,
                   scheduled>>
    /\ NoPollStep

\* the audio contents a listener of SpecPlayer has books of
PlayerAudio == MaxAudio + 1

\* A page with no request under way is loaded again: both closures start
\* over (app.js:1-10, 187, 210-213, 238-239, 356, 540, 587-590, 619-622),
\* localStorage is what the last page left, the split closure polls the
\* last job stored there (app.js:543-547), and the wall clock is counted
\* from this load.
Reload ==
    /\ Calm
    /\ uploads = EmptyBag
    /\ segments' = <<>>
    /\ activeIdx' = -1
    /\ captionText' = <<>>
    /\ overlayHidden' = FALSE
    /\ lines' = <<>>
    /\ activeLine' = NullEl
    /\ lineClass' = <<>>
    /\ captionsVisible' = Both(ReadFlag(storedCaptions))
    /\ pdfVisible' = ReadFlag(storedPdf)
    /\ currentTime' = 0
    /\ duration' = 0
    /\ readerOpen' = FALSE
    /\ synced' = Both(FALSE)
    /\ emitted' = Both(NoUpdate)
    /\ loaded' = Both(NoTranscript)
    /\ src' = 0
    /\ audioPathName' = Both(0)
    /\ now' = 0
    /\ saveThrottle' = Epoch
    /\ lastWrite' = Epoch
    /\ lastGap' = NoGap
    /\ scheduled' = Both(1)
    /\ chosen' = {}
    /\ uploadBtnDisabled' = TRUE
    /\ statusMsg' = IF lastJobId # NoJob THEN "Restoring" ELSE ""
    /\ poll' = [overlay |-> 0, split |-> IF lastJobId # NoJob THEN 1 ELSE 0]
    /\ timers' = IF lastJobId # NoJob
                 THEN {[build |-> "split", id |-> 1, job |-> lastJobId,
                        wait |-> 0]}
                 ELSE {}
    /\ historyFetch' = Both(HistorySent)
    /\ history' = {}
    /\ historyBy' = "overlay"
    /\ historyBar' = FALSE
    /\ currentJobId' = Both(NoJob)
    /\ handled' = NoReply
    /\ UNCHANGED <<hasOverlay, saved, storedPdf, storedCaptions, jobs,
                   fetches, uploads, lastJobId, pollCap, serviceVars>>

\* The page is loaded in a browser that stores nothing; the service has a
\* book on each audio.
InitPlayerSpec ==
    /\ InitLibrary([j \in 1..PlayerAudio |-> j],
                   [a \in 1..PlayerAudio |-> AudioTranscript(a)])
    /\ InitPage(MaxPolls)
    /\ lastJobId = NoJob

\* books are opened and read, frames come in between
NextPlayer ==
    \/ OpenBooks
    \/ LoadedMetadata
    \/ AnimationFrame
    \/ ArrowLeft
    \/ ArrowRight
    \/ LineClick
    \/ TimeUpdate

SpecPlayer == InitPlayerSpec /\ [][NextPlayer]_vars

\* books are opened and read, and the page is loaded again with what the
\* former page stored
NextResume ==
    \/ OpenBooks
    \/ LoadedMetadata
    \/ ArrowLeft
    \/ ArrowRight
    \/ LineClick
    \/ TimeUpdate
    \/ Reload

SpecResume == InitPlayerSpec /\ [][NextResume]_vars

\* books are opened and read while the wall clock advances
NextClock ==
    \/ OpenBooks
    \/ LoadedMetadata
    \/ ArrowLeft
    \/ ArrowRight
    \/ TimeUpdate
    \/ Wait

SpecClock == InitPlayerSpec /\ [][NextClock]_vars

(***************************************************************************)
(* C23  The sync engine is one cooperative loop: in every reachable state  *)
(* exactly one synccaptions callback of a closure is scheduled for the     *)
(* next animation frame, also after the sync frame that the loadedmetadata *)
(* handler runs at once when it restores a saved position.                 *)
(***************************************************************************)
C23_OneFrameLoop == \A b \in Builds : scheduled[b] = 1


(***************************************************************************)
(* The panel toggles                                                       *)
(***************************************************************************)
\* the panels are toggled while books are opened and read, and the page is
\* loaded again with the flags a former page stored
NextPanels ==
    \/ TogglePdfClick
    \/ ToggleCaptions
    \/ OpenBooks
    \/ LoadedMetadata
    \/ AnimationFrame
    \/ ArrowLeft
    \/ ArrowRight
    \/ Reload

SpecPanels == InitPlayerSpec /\ [][NextPanels]_vars

(***************************************************************************)
(* C24  In the split view, after any sequence of clicks on the PDF toggle  *)
(* and the captions toggle from a state with a panel visible, at least one *)
(* of the two panels is visible, and the flags kept in localStorage are    *)
(* the flags in memory, so that a reload starts from the same flags.       *)
(***************************************************************************)
C24_OnePanelVisible ==
    /\ pdfVisible \/ captionsVisible["split"]
    /\ ReadFlag(storedPdf) = pdfVisible
    /\ ReadFlag(storedCaptions) = captionsVisible["split"]


(***************************************************************************)
(* C25  Playback position round trip: the timeupdate handler stores the    *)
(* position under the key of the audio that is loaded in the player; when  *)
(* an audio is loaded, the loadedmetadata handler sets the position to the *)
(* value saved under that audio's key if it exceeds 2 s, and leaves the    *)
(* position as it is otherwise; no position is stored under or restored    *)
(* from the key of another audio.                                          *)
(***************************************************************************)
\* a step that changes what localStorage holds under a 'pos_' key
C25_SaveStep ==
    saved' # saved =>
        /\ src # 0
        /\ saved' = Store(saved, PathName(src), currentTime)

\* a step in which the metadata of the audio in the player arrives: the
\* handlers find the player at the position it was given before, the end
\* of the audio at most
C25_RestoreStep ==
    (duration = 0 /\ duration' > 0) =>
        /\ saved' = saved
        /\ src' = src
        /\ currentTime' = IF SavedTime(PathName(src)) > RestoreMinTicks
                          THEN SavedTime(PathName(src))
                          ELSE Min(currentTime, duration')

C25_PositionRoundTrip == [][C25_SaveStep /\ C25_RestoreStep]_vars


(***************************************************************************)
(* C26  Saving of the playback position is throttled to once per 3 s: for  *)
(* any sequence of timeupdate events, two successive writes of the         *)
(* position to localStorage are at least 3000 ms apart.                    *)
(***************************************************************************)
C26_SavesThrottled == lastGap # NoGap => lastGap >= ThrottleMs

====
